---------------------------- MODULE Spec2Model ----------------------------
(***************************************************************************)
(* crypto-tracker: the client Freshness Store (src/lib/cache.ts), the Sync *)
(* Orchestrator of the page component (src/app/page.tsx) and the Fetch     *)
(* Gateways of the server (src/app/api/prices, src/app/api/ohlc).          *)
(*                                                                         *)
(* Time is Date.now() in milliseconds.  localStorage is a partial function *)
(* from key strings to stored texts.  A stored text is a record naming the *)
(* shape of the text (what JSON.parse makes of it) and its content.        *)
(***************************************************************************)
EXTENDS Integers, Sequences, FiniteSets, TLC

VARIABLES
    now,              \* Date.now()
    storageAccess,    \* FALSE: every access to window.localStorage throws
    localStorage,     \* the origin's localStorage: key -> stored text
    call,             \* the cache.ts call the last step made, and what it met
    selectedCoin,     \* useState selectedCoin (the coin id)
    timeRange,        \* useState timeRange
    selectedCoinRef,  \* useRef, synced to selectedCoin by an effect
    timeRangeRef,     \* useRef, synced to timeRange by an effect
    allPrices,        \* useState allPrices
    chartData,        \* useState chartData
    lastUpdated,      \* useState lastUpdated
    isLoading,        \* useState isLoading
    isStale,          \* useState isStale
    error,            \* useState error
    isInitialized,    \* useState isInitialized
    started,          \* how many asynchronous operations were started so far
    ops,              \* the operations not yet over, and those started after
                      \* one of them, in start order
    priceCache,       \* prices/route.ts: let priceCache
    ohlcCacheMap,     \* ohlc/route.ts: const ohlcCache (a Map)
    inflight,         \* gateway requests awaiting their upstream response
    requested,        \* how many gateway requests reached upstream so far
    reply,            \* the response the gateways sent last
    documentVisible,  \* document.visibilityState === 'visible'
    isVisible,        \* useState isVisible
    intervals,        \* the timers setInterval made and nothing cleared yet
    refreshIntervalRef, \* useRef refreshIntervalRef: a timer id or null
    countdownInterval,  \* the id the pending effect cleanup captured, or null
    refreshCountdown, \* useState refreshCountdown, in seconds
    alerts,           \* AlertManager: useState alerts
    permission,       \* Notification.permission === 'granted'
    notified,         \* the rule ids a notification was shown for, in order
    created           \* how many alert rules were created so far

uiVars == <<selectedCoin, timeRange, selectedCoinRef, timeRangeRef, allPrices,
            chartData, lastUpdated, isLoading, isStale, error, isInitialized,
            started, ops>>
serverVars == <<priceCache, ohlcCacheMap, inflight, requested, reply>>
timerVars == <<documentVisible, isVisible, intervals, refreshIntervalRef,
               countdownInterval, refreshCountdown>>
alertVars == <<alerts, permission, notified, created>>
vars == <<now, storageAccess, localStorage, call, selectedCoin, timeRange,
          selectedCoinRef, timeRangeRef, allPrices, chartData, lastUpdated,
          isLoading, isStale, error, isInitialized, started, ops,
          priceCache, ohlcCacheMap, inflight, requested, reply,
          documentVisible, isVisible, intervals, refreshIntervalRef,
          countdownInterval, refreshCountdown,
          alerts, permission, notified, created>>

----------------------------------------------------------------------------
(* Program constants *)

PRICE_CACHE_KEY == "crypto-tracker-prices"
OHLC_CACHE_PREFIX == "crypto-tracker-ohlc-"
CLEAR_PREFIX == "crypto-tracker-"
FRESH_TTL == 60000
STALE_TTL == 900000
STORAGE_KEY == "crypto-tracker-last-coin"
VIEW_MODE_KEY == "crypto-tracker-view-mode"
ALERTS_STORAGE_KEY == "crypto-tracker-alerts"
COINS == <<"bitcoin", "ethereum", "solana">>
CoinIds == {COINS[i] : i \in DOMAIN COINS}
Ranges == {1, 7}

----------------------------------------------------------------------------
(* Bounds *)

\* Date.now() when the run starts (any positive number of milliseconds).
Epoch == 1000000
\* The clock takes the instants 0 .. MaxInstant of the schedule below.
MaxInstant == 1
\* Operations (load cycles, switches, refreshes) started in one run.
MaxOps == 2

\* The schedule walks the TTL boundaries: the epoch, FRESH_TTL later, STALE_TTL
\* later, STALE_TTL + FRESH_TTL later, and on in the same rhythm.
Instant(i) == Epoch + (i \div 2) * STALE_TTL + (i % 2) * FRESH_TTL

Instants == {Instant(i) : i \in 0..MaxInstant}

----------------------------------------------------------------------------
(* Values *)

\* CoinPrice of cache.ts; the two change fields play no part in any decision.
CoinPrice(p) == [price |-> p, change24h |-> 0, change7d |-> 0]

\* A snapshot of every coin at one price level, and one of bitcoin alone.
FullSnapshot(p) == [c \in CoinIds |-> CoinPrice(p)]
PartialSnapshot(p) == [c \in {"bitcoin"} |-> CoinPrice(p)]
PriceSnapshots == {FullSnapshot(1), PartialSnapshot(3)}

\* The price level a coin's candles trade at, to tell the coins' series apart.
CoinLevel(coinId) ==
    CASE coinId = "bitcoin" -> 100
      [] coinId = "ethereum" -> 200
      [] OTHER -> 300

\* One candle [time ms, open, high, low, close] of (coinId, days), version v
\* of the series: the used storage holds version 1, upstream gives version 2.
Candle(coinId, days, v) ==
    <<v * 1000 + 500, CoinLevel(coinId), CoinLevel(coinId) + days,
      CoinLevel(coinId) - days, CoinLevel(coinId) + v>>

\* The non-empty candle series upstream gives for (coinId, days).
SeriesOf(coinId, days) == {<<Candle(coinId, days, 2)>>}

\* Every payload the candle endpoint gives for (coinId, days): data.ohlc || [].
OHLCPayloads(coinId, days) == SeriesOf(coinId, days) \cup {<<>>}

----------------------------------------------------------------------------
(* Strings and stored texts *)

\* String.prototype.startsWith
StartsWith(s, p) == Len(s) >= Len(p) /\ SubSeq(s, 1, Len(p)) = p

\* `${OHLC_CACHE_PREFIX}${coinId}-${days}`
OHLCKey(coinId, days) == OHLC_CACHE_PREFIX \o coinId \o "-" \o ToString(days)

\* localStorage.getItem of a key that holds nothing
NoItem == [json |-> "nothing"]

\* JSON.stringify({ data, timestamp })
Stringify(data, timestamp) ==
    [json |-> "object", data |-> data, timestamp |-> timestamp]

\* Texts that are no cache entry: not JSON at all, the JSON text null, the
\* empty string, and an object that carries no timestamp.
Unparseable == [json |-> "unparseable"]
NullText == [json |-> "null"]
EmptyText == [json |-> "empty"]
NoTimestamp == [json |-> "object-no-timestamp"]

\* A plain string value (a preference or another application's item).
PlainText(s) == [json |-> "string", value |-> s]

\* What a try block ends with: a value, or a thrown exception.
Returned(v) == [threw |-> FALSE, value |-> v]
Thrown == [threw |-> TRUE]

\* JSON.parse: throws on text that is not JSON, gives null for "null".
JSONParse(text) ==
    CASE text.json = "object" ->
            Returned([isNull |-> FALSE, hasTimestamp |-> TRUE,
                      data |-> text.data, timestamp |-> text.timestamp])
      [] text.json = "object-no-timestamp" ->
            Returned([isNull |-> FALSE, hasTimestamp |-> FALSE])
      [] text.json = "null" -> Returned([isNull |-> TRUE])
      [] OTHER -> Thrown

----------------------------------------------------------------------------
(* localStorage *)

EmptyStorage == [k \in {} |-> NoItem]

\* localStorage.getItem
getItem(storage, key) ==
    IF ~storageAccess THEN Thrown
    ELSE IF key \in DOMAIN storage THEN Returned(storage[key])
    ELSE Returned(NoItem)

StorageWith(storage, key, text) ==
    [k \in DOMAIN storage \cup {key} |-> IF k = key THEN text ELSE storage[k]]

\* localStorage.setItem: throws when storage is blocked or the quota is
\* exceeded, and then stores nothing.
setItem(storage, key, text, quotaOk) ==
    IF storageAccess /\ quotaOk
    THEN [threw |-> FALSE, storage |-> StorageWith(storage, key, text)]
    ELSE [threw |-> TRUE, storage |-> storage]

\* A nullable value: null, or a value v.
Null == [isNull |-> TRUE]
Val(v) == [isNull |-> FALSE, v |-> v]

----------------------------------------------------------------------------
(* src/lib/cache.ts *)

\* CacheResult<T>
CacheResult(data, fresh, stale, timestamp) ==
    [data |-> data, isFresh |-> fresh, isStale |-> stale,
     timestamp |-> timestamp]

\* { data: null, isFresh: false, isStale: false, timestamp: null }
Absent == CacheResult(Null, FALSE, FALSE, Null)

\* ClassifyAge with both comparisons inclusive.
ClassifyAgeInclusive(cache, age) ==
    IF age <= FRESH_TTL
    THEN CacheResult(Val(cache.data), TRUE, FALSE, Val(cache.timestamp))
    ELSE IF age <= STALE_TTL
    THEN CacheResult(Val(cache.data), FALSE, TRUE, Val(cache.timestamp))
    ELSE Absent

\* ClassifyAge with an entry past STALE_TTL served as fresh again.
ClassifyAgeWrapping(cache, age) ==
    IF age < FRESH_TTL \/ age >= STALE_TTL
    THEN CacheResult(Val(cache.data), TRUE, FALSE, Val(cache.timestamp))
    ELSE CacheResult(Val(cache.data), FALSE, TRUE, Val(cache.timestamp))

\* The tier of an entry of the given age, as the two get functions decide it.
ClassifyAge(cache, age) ==
    IF age < FRESH_TTL
    THEN CacheResult(Val(cache.data), TRUE, FALSE, Val(cache.timestamp))
    ELSE IF age < STALE_TTL
    THEN CacheResult(Val(cache.data), FALSE, TRUE, Val(cache.timestamp))
    ELSE Absent

\* The try block of getPricesFromCache and of getOHLCFromCache at time t:
\* what it returns, or that it threw.
TryGet(storage, key, t) ==
    LET stored == getItem(storage, key) IN
    IF stored.threw THEN Thrown
    ELSE IF stored.value \in {NoItem, EmptyText} THEN Returned(Absent)
    ELSE LET parsed == JSONParse(stored.value) IN
         IF parsed.threw THEN Thrown
         ELSE IF parsed.value.isNull THEN Thrown  \* null.timestamp: TypeError
         ELSE IF ~parsed.value.hasTimestamp THEN Returned(Absent)  \* age NaN
         ELSE Returned(ClassifyAge(parsed.value, t - parsed.value.timestamp))

\* CatchGet without the catch: the exception reaches the caller.
CatchGetRethrow(try) == try

\* A get function's catch block.
CatchGet(try) == IF try.threw THEN Returned(Absent) ELSE try

getPricesFromCache(storage, t) == CatchGet(TryGet(storage, PRICE_CACHE_KEY, t))

getOHLCFromCache(storage, coinId, days, t) ==
    CatchGet(TryGet(storage, OHLCKey(coinId, days), t))

\* CatchSave without the catch: a failed setItem reaches the caller.
CatchSaveRethrow(try) == try

\* A save function's catch block: fail silently.
CatchSave(try) == [threw |-> FALSE, storage |-> try.storage]

savePricesToCache(storage, prices, t, quotaOk) ==
    CatchSave(setItem(storage, PRICE_CACHE_KEY, Stringify(prices, t), quotaOk))

\* saveOHLCToCache with the range left out of the key.
saveOHLCToCacheNoDays(storage, coinId, days, ohlc, t, quotaOk) ==
    CatchSave(setItem(storage, OHLC_CACHE_PREFIX \o coinId, Stringify(ohlc, t),
                      quotaOk))

saveOHLCToCache(storage, coinId, days, ohlc, t, quotaOk) ==
    CatchSave(setItem(storage, OHLCKey(coinId, days), Stringify(ohlc, t),
                      quotaOk))

\* clearAllCache matching the candle prefix only.
clearAllCacheOHLCOnly(storage) ==
    IF ~storageAccess THEN [threw |-> FALSE, storage |-> storage]
    ELSE [threw |-> FALSE,
          storage |-> [k \in {x \in DOMAIN storage : ~StartsWith(x, OHLC_CACHE_PREFIX)}
                          |-> storage[k]]]

\* clearAllCache: Object.keys throws when storage is blocked, and the catch
\* block then leaves everything as it is.
clearAllCache(storage) ==
    IF ~storageAccess THEN [threw |-> FALSE, storage |-> storage]
    ELSE [threw |-> FALSE,
          storage |-> [k \in {x \in DOMAIN storage : ~StartsWith(x, CLEAR_PREFIX)}
                          |-> storage[k]]]

----------------------------------------------------------------------------
(* The state after construction *)

\* What earlier sessions and other pages of the origin may have left in
\* localStorage: nothing; the preferences, the alert list, two foreign items
\* and cache entries at and one millisecond short of the two TTLs; texts that
\* are no cache entry.
ForeignItems ==
    [k \in {"theme", "crypto-tracker"} |-> PlainText("dark")]

UsedStorage ==
    [k \in {PRICE_CACHE_KEY, OHLCKey("bitcoin", 1), OHLCKey("bitcoin", 7),
            OHLCKey("ethereum", 7), STORAGE_KEY, VIEW_MODE_KEY,
            ALERTS_STORAGE_KEY} \cup DOMAIN ForeignItems |->
        CASE k = PRICE_CACHE_KEY ->
                Stringify(FullSnapshot(1), Epoch - (FRESH_TTL - 1))
          [] k = OHLCKey("bitcoin", 1) ->
                Stringify(<<Candle("bitcoin", 1, 1)>>, Epoch - FRESH_TTL)
          [] k = OHLCKey("bitcoin", 7) ->
                Stringify(<<Candle("bitcoin", 7, 1)>>, Epoch - (STALE_TTL - 1))
          [] k = OHLCKey("ethereum", 7) ->
                Stringify(<<Candle("ethereum", 7, 1)>>, Epoch - STALE_TTL)
          [] k = STORAGE_KEY -> PlainText("ethereum")
          [] k = VIEW_MODE_KEY -> PlainText("single")
          [] k = ALERTS_STORAGE_KEY -> [json |-> "array", items |-> <<>>]
          [] OTHER -> ForeignItems[k]]

CorruptStorage ==
    [k \in {PRICE_CACHE_KEY, OHLCKey("bitcoin", 1), OHLCKey("bitcoin", 7),
            OHLCKey("ethereum", 1), OHLCKey("ethereum", 7)} |->
        CASE k = PRICE_CACHE_KEY -> Unparseable
          [] k = OHLCKey("bitcoin", 1) -> NullText
          [] k = OHLCKey("bitcoin", 7) -> NoTimestamp
          [] k = OHLCKey("ethereum", 1) -> EmptyText
          [] OTHER -> PlainText("ethereum")]

SeedStorages == {EmptyStorage, UsedStorage, CorruptStorage}

NoCall == [op |-> "none"]

\* The component's state as useState and useRef initialise it.
UIInit ==
    /\ selectedCoin = COINS[1]
    /\ timeRange = 1
    /\ selectedCoinRef = COINS[1]
    /\ timeRangeRef = 1
    /\ allPrices = [c \in {} |-> CoinPrice(0)]
    /\ chartData = <<>>
    /\ lastUpdated = [text |-> "--"]
    /\ isLoading = FALSE
    /\ isStale = FALSE
    /\ error = Null
    /\ isInitialized = FALSE
    /\ started = 0
    /\ ops = <<>>

\* The server's module state when the process starts: no shared entry, no
\* request.
NoEntry == [isNull |-> TRUE]
NoReply == [route |-> "none"]
ServerInit ==
    /\ priceCache = NoEntry
    /\ ohlcCacheMap = [k \in {} |-> NoEntry]
    /\ inflight = {}
    /\ requested = 0
    /\ reply = NoReply

\* The timer state of a page in the foreground before its effects ran
\* (page.tsx lines 87-88, 95): no timer, the countdown at a full period.
AUTO_REFRESH_MS == 60000
TimerInit ==
    /\ documentVisible = TRUE
    /\ isVisible = TRUE
    /\ intervals = {}
    /\ refreshIntervalRef = Null
    /\ countdownInterval = Null
    /\ refreshCountdown = AUTO_REFRESH_MS \div 1000

\* The alert panel before its effects ran (AlertManager line 22), with the
\* notification permission granted.
AlertInit ==
    /\ alerts = <<>>
    /\ permission = TRUE
    /\ notified = <<>>
    /\ created = 0

\* A blocked storage shows the page no item at all.
StoreInit ==
    /\ now = Epoch
    /\ storageAccess \in BOOLEAN
    /\ localStorage \in IF storageAccess THEN SeedStorages ELSE {EmptyStorage}
    /\ call = NoCall
    /\ UIInit
    /\ ServerInit
    /\ TimerInit
    /\ AlertInit

----------------------------------------------------------------------------
(* The Freshness Store on its own: every export of cache.ts, called at any  *)
(* time with any argument.                                                  *)

\* Time passes.
Tick ==
    /\ \E t \in Instants : t > now /\ now' = t
    /\ call' = NoCall
    /\ UNCHANGED <<storageAccess, localStorage>>
    /\ UNCHANGED uiVars
    /\ UNCHANGED serverVars
    /\ UNCHANGED <<timerVars, alertVars>>

\* The coin the callers below ask candles of.  fetchOHLC, the one caller of
\* saveOHLCToCache, saves non-empty series only.
StoreCoins == {"bitcoin"}

CallGetPrices ==
    /\ call' = [op |-> "getPricesFromCache", key |-> PRICE_CACHE_KEY,
                outcome |-> getPricesFromCache(localStorage, now)]
    /\ UNCHANGED <<now, storageAccess, localStorage>>
    /\ UNCHANGED uiVars
    /\ UNCHANGED serverVars
    /\ UNCHANGED <<timerVars, alertVars>>

CallGetOHLC ==
    /\ \E coinId \in StoreCoins, days \in Ranges :
          call' = [op |-> "getOHLCFromCache", key |-> OHLCKey(coinId, days),
                   outcome |-> getOHLCFromCache(localStorage, coinId, days, now)]
    /\ UNCHANGED <<now, storageAccess, localStorage>>
    /\ UNCHANGED uiVars
    /\ UNCHANGED serverVars
    /\ UNCHANGED <<timerVars, alertVars>>

CallSavePrices ==
    /\ \E prices \in PriceSnapshots, quotaOk \in BOOLEAN :
          LET r == savePricesToCache(localStorage, prices, now, quotaOk) IN
          /\ localStorage' = r.storage
          /\ call' = [op |-> "savePricesToCache", key |-> PRICE_CACHE_KEY,
                      arg |-> prices,
                      stored |-> storageAccess /\ quotaOk,
                      outcome |-> [threw |-> r.threw]]
    /\ UNCHANGED <<now, storageAccess>>
    /\ UNCHANGED uiVars
    /\ UNCHANGED serverVars
    /\ UNCHANGED <<timerVars, alertVars>>

CallSaveOHLC ==
    /\ \E coinId \in StoreCoins, days \in Ranges, quotaOk \in BOOLEAN :
        \E ohlc \in SeriesOf(coinId, days) :
          LET r == saveOHLCToCache(localStorage, coinId, days, ohlc, now, quotaOk) IN
          /\ localStorage' = r.storage
          /\ call' = [op |-> "saveOHLCToCache", key |-> OHLCKey(coinId, days),
                      arg |-> ohlc,
                      stored |-> storageAccess /\ quotaOk,
                      outcome |-> [threw |-> r.threw]]
    /\ UNCHANGED <<now, storageAccess>>
    /\ UNCHANGED uiVars
    /\ UNCHANGED serverVars
    /\ UNCHANGED <<timerVars, alertVars>>

CallClearAllCache ==
    /\ LET r == clearAllCache(localStorage) IN
          /\ localStorage' = r.storage
          /\ call' = [op |-> "clearAllCache",
                      outcome |-> [threw |-> r.threw]]
    /\ UNCHANGED <<now, storageAccess>>
    /\ UNCHANGED uiVars
    /\ UNCHANGED serverVars
    /\ UNCHANGED <<timerVars, alertVars>>

StoreNext ==
    \/ Tick
    \/ CallGetPrices
    \/ CallGetOHLC
    \/ CallSavePrices
    \/ CallSaveOHLC
    \/ CallClearAllCache

SpecStore == StoreInit /\ [][StoreNext]_vars

----------------------------------------------------------------------------
(* Claims about the Freshness Store, checked under SpecStore *)

GetOps == {"getPricesFromCache", "getOHLCFromCache"}
SaveOps == {"savePricesToCache", "saveOHLCToCache"}

\* Every entry the two get functions read: the price entry and the candle
\* entry of each (coin, range), with its key.
PriceTarget == [stream |-> "prices", key |-> PRICE_CACHE_KEY]
OHLCTarget(coinId, days) ==
    [stream |-> "ohlc", key |-> OHLCKey(coinId, days), coinId |-> coinId,
     days |-> days]
Targets == {PriceTarget} \cup {OHLCTarget(c, d) : c \in CoinIds, d \in Ranges}
OHLCKeys == {OHLCKey(c, d) : c \in CoinIds, d \in Ranges}
CacheKeys == {PRICE_CACHE_KEY} \cup OHLCKeys

\* What the get function of a target returns at time t.
Get(storage, target, t) ==
    IF target.stream = "prices" THEN getPricesFromCache(storage, t)
    ELSE getOHLCFromCache(storage, target.coinId, target.days, t)

\* What a get function returns for a cache key at time t.
GetByKey(storage, key, t) ==
    Get(storage, CHOOSE target \in Targets : target.key = key, t)

\* A key holds a readable cache entry: text that parses to { data, timestamp }.
HoldsEntry(storage, key) ==
    storageAccess /\ key \in DOMAIN storage /\ storage[key].json = "object"

\* This step is a call of op that changed the call record or the storage.
Called(op) ==
    call'.op = op /\ (call' # call \/ localStorage' # localStorage)

\* C5: the tier of a stored entry depends on its age = now - writtenAt alone:
\* below 60 s the entry is FRESH and returned, from 60 s and below 900 s it is
\* STALE and its original value is returned, from 900 s on the result is absent
\* (data null, timestamp null); price entry and candle entries alike, and
\* exactly one of the three holds.
C5_Classification ==
    \A target \in Targets :
        HoldsEntry(localStorage, target.key) =>
            LET e == localStorage[target.key]
                age == now - e.timestamp
                r == Get(localStorage, target, now)
            IN  /\ ~r.threw
                /\ age < 60 * 1000 =>
                      r.value = CacheResult(Val(e.data), TRUE, FALSE, Val(e.timestamp))
                /\ (age >= 60 * 1000 /\ age < 900 * 1000) =>
                      r.value = CacheResult(Val(e.data), FALSE, TRUE, Val(e.timestamp))
                /\ age >= 900 * 1000 => r.value = Absent
                /\ Cardinality({x \in {"fresh", "stale", "absent"} :
                        \/ x = "fresh" /\ r.value.isFresh
                        \/ x = "stale" /\ r.value.isStale
                        \/ x = "absent" /\ r.value = Absent}) = 1

\* C5 witness: a get has just returned a STALE candle entry of age exactly
\* FRESH_TTL, while the price entry is FRESH and another candle entry, of age
\* STALE_TTL or more, reads as absent.
C5_Witness ==
    /\ call.op = "getOHLCFromCache"
    /\ call.outcome.value.isStale
    /\ HoldsEntry(localStorage, call.key)
    /\ now - localStorage[call.key].timestamp = FRESH_TTL
    /\ HoldsEntry(localStorage, PRICE_CACHE_KEY)
    /\ getPricesFromCache(localStorage, now).value.isFresh
    /\ \E target \in Targets :
          /\ HoldsEntry(localStorage, target.key)
          /\ now - localStorage[target.key].timestamp >= STALE_TTL
          /\ Get(localStorage, target, now).value = Absent

\* FRESH, then STALE, then absent.
TierRank(result) ==
    IF result.value.isFresh THEN 0 ELSE IF result.value.isStale THEN 1 ELSE 2

\* C6: tier monotonicity.  In a step that leaves a key's entry as it is, the
\* tier get returns for it never moves backwards (FRESH, STALE, absent); the
\* tier moves backwards only in a step that writes the key with writtenAt = now.
C6_TierMonotone ==
    [][\A target \in Targets :
          (HoldsEntry(localStorage, target.key) /\ now' >= now) =>
              LET key == target.key
                  before == TierRank(Get(localStorage, target, now))
                  after == TierRank(Get(localStorage', target, now'))
              IN  /\ (key \in DOMAIN localStorage' /\ localStorage'[key] = localStorage[key])
                        => after >= before
                  /\ after < before =>
                        /\ call'.op \in SaveOps /\ call'.key = key /\ call'.stored
                        /\ localStorage'[key].timestamp = now'
                        /\ after = 0]_vars

\* C6 witness: time has passed; the price entry of the used storage has aged
\* from FRESH to STALE, a candle entry of it from STALE to absent, and a key
\* written at this instant reads FRESH.
C6_Witness ==
    /\ now > Epoch
    /\ HoldsEntry(localStorage, PRICE_CACHE_KEY)
    /\ localStorage[PRICE_CACHE_KEY].timestamp = Epoch - (FRESH_TTL - 1)
    /\ TierRank(getPricesFromCache(localStorage, now)) = 1
    /\ HoldsEntry(localStorage, OHLCKey("bitcoin", 7))
    /\ localStorage[OHLCKey("bitcoin", 7)].timestamp = Epoch - (STALE_TTL - 1)
    /\ TierRank(getOHLCFromCache(localStorage, "bitcoin", 7, now)) = 2
    /\ HoldsEntry(localStorage, OHLCKey("bitcoin", 1))
    /\ localStorage[OHLCKey("bitcoin", 1)].timestamp = now
    /\ TierRank(getOHLCFromCache(localStorage, "bitcoin", 1, now)) = 0

\* A key whose text is missing, unreadable or no cache entry.
Unusable(storage, key) == ~HoldsEntry(storage, key)

C8_PutGetRoundTrip ==
    [][\A op \in SaveOps : (Called(op) /\ call'.stored) =>
          /\ GetByKey(localStorage', call'.key, now').value =
                CacheResult(Val(call'.arg), TRUE, FALSE, Val(now'))
          /\ DOMAIN localStorage' = DOMAIN localStorage \cup {call'.key}
          /\ \A k \in DOMAIN localStorage \ {call'.key} :
                localStorage'[k] = localStorage[k]]_vars

\* C8 witness: a snapshot has been saved over the used storage's price entry,
\* which held another snapshot.
C8_Witness ==
    /\ call.op = "savePricesToCache"
    /\ call.stored
    /\ call.arg = PartialSnapshot(3)
    /\ "theme" \in DOMAIN localStorage
    /\ localStorage[PRICE_CACHE_KEY] = Stringify(PartialSnapshot(3), now)
    /\ now > Epoch

\* The keys of the model that begin with "crypto-tracker-", written out.
NamespaceKeys ==
    CacheKeys \cup {"crypto-tracker-last-coin", "crypto-tracker-view-mode",
                    "crypto-tracker-alerts"}

\* C10: clearAllCache removes every item whose key starts with
\* "crypto-tracker-" and leaves every other item as it is; afterwards get of
\* the price key and of every candle key returns absent.
C10_ClearAllCache ==
    [][Called("clearAllCache") =>
          /\ DOMAIN localStorage' = DOMAIN localStorage \ NamespaceKeys
          /\ \A k \in DOMAIN localStorage' : localStorage'[k] = localStorage[k]
          /\ ~call'.outcome.threw
          /\ \A target \in Targets :
                Get(localStorage', target, now').value = Absent]_vars

\* C10 witness: clearAllCache has run on the used storage: the foreign items
\* are there, the cache entries are gone.
C10_Witness ==
    /\ call.op = "clearAllCache"
    /\ DOMAIN localStorage = DOMAIN ForeignItems
    /\ \A k \in DOMAIN ForeignItems : localStorage[k] = ForeignItems[k]

\* The persisted namespaces that are no cache entry: the alert-rule list and
\* the two preferences.
OtherNamespaces == {ALERTS_STORAGE_KEY, STORAGE_KEY, VIEW_MODE_KEY}

\* C39: a full cache reset keeps the other persisted namespaces.
\* clearAllCache removes the price entry and every candle entry and leaves the
\* stored alert-rule list and the last-coin and view-mode preferences as they
\* were.
C39_ResetKeepsOtherNamespaces ==
    [][Called("clearAllCache") =>
          /\ PRICE_CACHE_KEY \notin DOMAIN localStorage'
          /\ \A k \in DOMAIN localStorage' : ~StartsWith(k, OHLC_CACHE_PREFIX)
          /\ \A k \in OtherNamespaces \cap DOMAIN localStorage :
                /\ k \in DOMAIN localStorage'
                /\ localStorage'[k] = localStorage[k]]_vars

----------------------------------------------------------------------------
(* src/app/page.tsx: the Sync Orchestrator *)

\* transformOHLC
transformOHLC(ohlc) ==
    [i \in DOMAIN ohlc |->
        [time |-> ohlc[i][1] \div 1000, open |-> ohlc[i][2], high |-> ohlc[i][3],
         low |-> ohlc[i][4], close |-> ohlc[i][5]]]

\* formatTime and the toLocaleTimeString of loadAllData: the time of day, to
\* the second.
formatTime(timestamp) == (timestamp \div 1000) % 86400

\* `${formatTime(cacheTime)} (cached)` and the plain time string
CachedStamp(timestamp) == [time |-> formatTime(timestamp), cached |-> TRUE]
LiveStamp(timestamp) == [time |-> formatTime(timestamp), cached |-> FALSE]

\* OrElse that prefers its second operand.
OrElseSecond(a, b) == IF ~b.isNull /\ b.v # 0 THEN b ELSE a

\* a || b on two nullable timestamps (0 is falsy)
OrElse(a, b) == IF ~a.isNull /\ a.v # 0 THEN a ELSE b

\* ohlcCache.data && ohlcCache.data.length > 0
NonEmpty(data) == ~data.isNull /\ Len(data.v) > 0

\* The states of one fetch of an operation: not issued, in flight, settled
\* with a payload ("data"), with an empty series ("empty"), with null ("failed").
Pending == "pending"
Settled == {"data", "empty", "failed"}

\* An asynchronous operation: the handler that started it, the (coin, range)
\* it captured, and its price and candle fetches with the refresh flag of each.
Op(kind, coinId, days, showLoading, price, forcePrices, ohlc, forceOHLC) ==
    [kind |-> kind, coinId |-> coinId, days |-> days, showLoading |-> showLoading,
     price |-> price, forcePrices |-> forcePrices,
     ohlc |-> ohlc, forceOHLC |-> forceOHLC]

\* Room for one more operation within the bound.
CanStart == started < MaxOps

\* An operation is over when none of its fetches is in flight.
IsOver(op) == op.price # Pending /\ op.ohlc # Pending

\* The operations to keep: from the first one that is not over.
RECURSIVE DropOver(_)
DropOver(list) ==
    IF list = <<>> THEN <<>>
    ELSE IF IsOver(Head(list)) THEN DropOver(Tail(list)) ELSE list

\* A handler starts an operation.
Start(op) == ops' = Append(ops, op) /\ started' = started + 1

\* The stale-selection test of loadAllData's candle callback (line 326), and
\* of its cache read (line 281).
IsCurrentSelection(coinId, days, refCoin, refRange) ==
    coinId = refCoin /\ days = refRange

\* The test of handleCoinChange's callbacks (lines 407 and 417).
IsCurrentCoin(coinId, days, refCoin, refRange) == coinId = refCoin

\* The callbacks of handleTimeRangeChange and handleManualRefresh test nothing.
NoSelectionTest(coinId, days, refCoin, refRange) == TRUE

\* NeedsFetch that revalidates nothing it has a cached value for.
NeedsFetchUnlessCached(hasData, isFresh) == ~hasData

\* needsPriceFetch and needsOHLCFetch (lines 261-289): true unless the stream
\* has cached data and the entry is fresh.
NeedsFetch(hasData, isFresh) == ~(hasData /\ isFresh)

\* A flag that would be set for every stream without a fresh entry.
StaleFlagUnlessFresh(hasData, isFresh) == ~isFresh

\* pricesStale and ohlcStale (lines 264-265, 271-275, 284-288): set when the
\* stream has cached data and the entry is not fresh.
StaleFlag(hasData, isFresh) == hasData /\ ~isFresh

\* loadAllData(coin, range, showLoading) up to its await, run with the
\* component state given (refCoin and refRange are the refs' values).
LoadAllData(coinId, days, showLoading, refCoin, refRange) ==
    LET pricesCache == getPricesFromCache(localStorage, now).value
        ohlcCache == getOHLCFromCache(localStorage, coinId, days, now).value
        hasPrices == ~pricesCache.data.isNull
        hasOHLC == NonEmpty(ohlcCache.data)
        needsPriceFetch == NeedsFetch(hasPrices, pricesCache.isFresh)
        needsOHLCFetch == NeedsFetch(hasOHLC, ohlcCache.isFresh)
        pricesStale == StaleFlag(hasPrices, pricesCache.isFresh)
        ohlcStale == StaleFlag(hasOHLC, ohlcCache.isFresh)
        cacheTime == OrElse(pricesCache.timestamp, ohlcCache.timestamp)
    IN  /\ allPrices' = IF hasPrices THEN pricesCache.data.v ELSE allPrices
        /\ chartData' =
              IF hasOHLC /\ IsCurrentSelection(coinId, days, refCoin, refRange)
              THEN transformOHLC(ohlcCache.data.v) ELSE chartData
        /\ IF ~needsPriceFetch /\ ~needsOHLCFetch
           THEN /\ isStale' = (pricesStale \/ ohlcStale)
                /\ lastUpdated' = IF ~cacheTime.isNull /\ cacheTime.v # 0
                                  THEN CachedStamp(cacheTime.v) ELSE lastUpdated
                /\ error' = Null
                /\ UNCHANGED <<isLoading, started, ops>>
           ELSE /\ CanStart
                /\ isStale' = (pricesStale \/ ohlcStale)
                /\ isLoading' = IF showLoading /\ ~hasPrices /\ ohlcCache.data.isNull
                                THEN TRUE ELSE isLoading
                /\ Start(Op("loadAllData", coinId, days, showLoading,
                            IF needsPriceFetch THEN Pending ELSE "none", pricesStale,
                            IF needsOHLCFetch THEN Pending ELSE "none", ohlcStale))
                /\ UNCHANGED <<lastUpdated, error>>

\* Mount: the restore-selection effect (lines 148-163), the ref-sync effects
\* and the initial load (lines 383-386).  With storage blocked the effect's
\* getItem throws and the component never initialises.
Mount ==
    /\ ~isInitialized
    /\ storageAccess
    /\ LET saved == getItem(localStorage, STORAGE_KEY).value
           initialCoin == IF saved.json = "string" /\ saved.value \in CoinIds
                          THEN saved.value ELSE COINS[1]
       IN  /\ selectedCoin' = initialCoin
           /\ selectedCoinRef' = initialCoin
           /\ isInitialized' = TRUE
           /\ LoadAllData(initialCoin, timeRange, TRUE, initialCoin, timeRangeRef)
    /\ call' = NoCall
    /\ UNCHANGED serverVars
    /\ UNCHANGED <<timerVars, alertVars>>
    /\ UNCHANGED <<now, storageAccess, localStorage, timeRange, timeRangeRef>>

\* The auto-refresh interval fires (lines 195-198).
AutoRefresh ==
    /\ isInitialized
    /\ LoadAllData(selectedCoin, timeRange, FALSE, selectedCoinRef, timeRangeRef)
    /\ call' = NoCall
    /\ UNCHANGED serverVars
    /\ UNCHANGED <<timerVars, alertVars>>
    /\ UNCHANGED <<now, storageAccess, localStorage, selectedCoin, timeRange,
                   selectedCoinRef, timeRangeRef, isInitialized>>

\* handleVisibilityChange (lines 167-173) when the page becomes visible again;
\* the hidden phase before it changes nothing this specification tracks.
VisibilityRegain ==
    /\ isInitialized
    /\ LoadAllData(selectedCoin, timeRange, FALSE, selectedCoinRef, timeRangeRef)
    /\ call' = NoCall
    /\ UNCHANGED serverVars
    /\ UNCHANGED <<timerVars, alertVars>>
    /\ UNCHANGED <<now, storageAccess, localStorage, selectedCoin, timeRange,
                   selectedCoinRef, timeRangeRef, isInitialized>>

\* What a switch does with the candles of its new target (lines 399-421 and
\* 429-451): paint the cached series and revalidate it in the background if
\* it is not fresh, or clear the chart, show loading and fetch.
SwitchCandles(kind, coinId, days) ==
    LET ohlcCache == getOHLCFromCache(localStorage, coinId, days, now).value IN
    IF NonEmpty(ohlcCache.data)
    THEN /\ chartData' = transformOHLC(ohlcCache.data.v)
         /\ UNCHANGED isLoading
         /\ IF ohlcCache.isFresh
            THEN UNCHANGED <<started, ops>>
            ELSE /\ CanStart
                 /\ Start(Op(kind, coinId, days, FALSE, "none", FALSE, Pending, TRUE))
    ELSE /\ CanStart
         /\ isLoading' = TRUE
         /\ chartData' = <<>>
         /\ Start(Op(kind, coinId, days, TRUE, "none", FALSE, Pending, FALSE))

\* handleCoinChange (lines 389-422).  Its setItem is outside any try: when it
\* throws, the selection has changed and the rest of the handler is skipped.
HandleCoinChange ==
    /\ isInitialized
    /\ \E coinId \in CoinIds \ {selectedCoin}, quotaOk \in BOOLEAN :
          LET r == setItem(localStorage, STORAGE_KEY, PlainText(coinId), quotaOk) IN
          /\ selectedCoin' = coinId
          /\ selectedCoinRef' = coinId
          /\ localStorage' = r.storage
          /\ IF r.threw
             THEN UNCHANGED <<chartData, isLoading, started, ops>>
             ELSE SwitchCandles("handleCoinChange", coinId, timeRange)
    /\ call' = NoCall
    /\ UNCHANGED serverVars
    /\ UNCHANGED <<timerVars, alertVars>>
    /\ UNCHANGED <<now, storageAccess, timeRange, timeRangeRef, allPrices,
                   lastUpdated, isStale, error, isInitialized>>

\* handleTimeRangeChange (lines 425-452)
HandleTimeRangeChange ==
    /\ isInitialized
    /\ \E days \in Ranges \ {timeRange} :
          /\ timeRange' = days
          /\ timeRangeRef' = days
          /\ SwitchCandles("handleTimeRangeChange", selectedCoin, days)
    /\ call' = NoCall
    /\ UNCHANGED serverVars
    /\ UNCHANGED <<timerVars, alertVars>>
    /\ UNCHANGED <<now, storageAccess, localStorage, selectedCoin,
                   selectedCoinRef, allPrices, lastUpdated, isStale, error,
                   isInitialized>>

\* handleManualRefresh (lines 455-472) up to its await.  Its button is
\* disabled while isLoading (line 525).
HandleManualRefresh ==
    /\ isInitialized
    /\ ~isLoading
    /\ CanStart
    /\ isLoading' = TRUE
    /\ Start(Op("handleManualRefresh", selectedCoin, timeRange, TRUE,
                Pending, TRUE, Pending, TRUE))
    /\ call' = NoCall
    /\ UNCHANGED serverVars
    /\ UNCHANGED <<timerVars, alertVars>>
    /\ UNCHANGED <<now, storageAccess, localStorage, selectedCoin, timeRange,
                   selectedCoinRef, timeRangeRef, allPrices, chartData,
                   lastUpdated, isStale, error, isInitialized>>

\* What the network gives a fetch: a failure (a rejected fetch, a non-OK
\* response or an error body), or a payload.
FetchFailed == [ok |-> FALSE]
FetchOk(payload) == [ok |-> TRUE, payload |-> payload]
PriceOutcomes == {FetchFailed} \cup {FetchOk(p) : p \in PriceSnapshots}
OHLCOutcomes(coinId, days) ==
    {FetchFailed} \cup {FetchOk(p) : p \in OHLCPayloads(coinId, days)}

\* The record of a save call.
SaveCall(op, key, arg, quotaOk, r) ==
    [op |-> op, key |-> key, arg |-> arg, stored |-> storageAccess /\ quotaOk,
     outcome |-> [threw |-> r.threw]]

\* CatchFetch without the catch: the exception reaches the caller.
CatchFetchRethrow(try) == try

\* The catch block of fetchPrices (lines 230-233) and of fetchOHLC (lines
\* 253-256): log and return null.
CatchFetch(try) ==
    IF try.threw THEN [try EXCEPT !.threw = FALSE, !.result = Null] ELSE try

\* The try block of fetchPrices (lines 217-229) from the response on: the
\* storage it leaves, the save call it made, and the value it returns or that
\* it threw.  A rejected fetch, a non-OK response and an error body throw.
TryFetchPrices(storage, outcome, t, quotaOk) ==
    IF ~outcome.ok
    THEN [threw |-> TRUE, storage |-> storage, call |-> NoCall, result |-> Null]
    ELSE LET r == savePricesToCache(storage, outcome.payload, t, quotaOk) IN
         [threw |-> r.threw,
          storage |-> r.storage,
          call |-> SaveCall("savePricesToCache", PRICE_CACHE_KEY, outcome.payload,
                            quotaOk, r),
          result |-> Val(outcome.payload)]

\* fetchPrices (lines 216-234) from the response on.
fetchPrices(storage, outcome, t, quotaOk) ==
    CatchFetch(TryFetchPrices(storage, outcome, t, quotaOk))

\* fetchOHLC that saves under the range the user now looks at.
fetchOHLCSaveCurrentRange(storage, coinId, days, outcome, t, quotaOk) ==
    IF ~outcome.ok
    THEN [storage |-> storage, call |-> NoCall, result |-> Null]
    ELSE IF Len(outcome.payload) > 0
    THEN LET r == saveOHLCToCache(storage, coinId, timeRange, outcome.payload, t,
                                  quotaOk) IN
         [storage |-> r.storage,
          call |-> SaveCall("saveOHLCToCache", OHLCKey(coinId, days),
                            outcome.payload, quotaOk, r),
          result |-> IF r.threw THEN Null ELSE Val(outcome.payload)]
    ELSE [storage |-> storage, call |-> NoCall, result |-> Val(outcome.payload)]

\* The try block of fetchOHLC (lines 238-252) from the response on.
TryFetchOHLC(storage, coinId, days, outcome, t, quotaOk) ==
    IF ~outcome.ok
    THEN [threw |-> TRUE, storage |-> storage, call |-> NoCall, result |-> Null]
    ELSE IF Len(outcome.payload) > 0
    THEN LET r == saveOHLCToCache(storage, coinId, days, outcome.payload, t,
                                  quotaOk) IN
         [threw |-> r.threw,
          storage |-> r.storage,
          call |-> SaveCall("saveOHLCToCache", OHLCKey(coinId, days),
                            outcome.payload, quotaOk, r),
          result |-> Val(outcome.payload)]
    ELSE [threw |-> FALSE, storage |-> storage, call |-> NoCall,
          result |-> Val(outcome.payload)]

\* fetchOHLC (lines 237-257) from the response on.
fetchOHLC(storage, coinId, days, outcome, t, quotaOk) ==
    CatchFetch(TryFetchOHLC(storage, coinId, days, outcome, t, quotaOk))

\* How a fetch that returned `result` is recorded in its operation.
PriceStatus(result) == IF result.isNull THEN "failed" ELSE "data"
OHLCStatus(result) ==
    IF result.isNull THEN "failed"
    ELSE IF Len(result.v) > 0 THEN "data" ELSE "empty"

\* The selection test the candle callback of an operation makes before
\* setChartData.
CandleCallbackTest(op) ==
    CASE op.kind = "loadAllData" ->
            IsCurrentSelection(op.coinId, op.days, selectedCoinRef, timeRangeRef)
      [] op.kind = "handleCoinChange" ->
            IsCurrentCoin(op.coinId, op.days, selectedCoinRef, timeRangeRef)
      [] OTHER ->
            NoSelectionTest(op.coinId, op.days, selectedCoinRef, timeRangeRef)

\* PromiseAll that resumes at the first fetch to settle.
PromiseRace(other) == TRUE

\* await Promise.all(promises), seen from the fetch that settles: the handler
\* resumes when the operation's other fetch is not in flight.
PromiseAll(other) == other # Pending

\* AfterAwait of a switch handler that ends at its await, without lines 420
\* and 450.
AfterAwaitSwitchKeepsLoading(op) ==
    CASE op.kind = "loadAllData" ->
            /\ isStale' = FALSE
            /\ error' = Null
            /\ lastUpdated' = LiveStamp(now)
            /\ isLoading' = IF op.showLoading THEN FALSE ELSE isLoading
      [] op.kind = "handleManualRefresh" ->
            /\ isStale' = FALSE
            /\ lastUpdated' = LiveStamp(now)
            /\ isLoading' = FALSE
            /\ UNCHANGED error
      [] OTHER ->
            UNCHANGED <<isStale, error, lastUpdated, isLoading>>

\* What follows the await once every fetch of the operation has settled:
\* loadAllData lines 335-345, handleManualRefresh lines 463-471, the awaiting
\* branch of a switch lines 420 and 450; a background revalidation has nothing.
AfterAwait(op) ==
    CASE op.kind = "loadAllData" ->
            /\ isStale' = FALSE
            /\ error' = Null
            /\ lastUpdated' = LiveStamp(now)
            /\ isLoading' = IF op.showLoading THEN FALSE ELSE isLoading
      [] op.kind = "handleManualRefresh" ->
            /\ isStale' = FALSE
            /\ lastUpdated' = LiveStamp(now)
            /\ isLoading' = FALSE
            /\ UNCHANGED error
      [] OTHER ->
            /\ isLoading' = IF op.showLoading THEN FALSE ELSE isLoading
            /\ UNCHANGED <<isStale, error, lastUpdated>>

\* The price fetch of operation i settles.
ResolvePrices ==
    \E i \in DOMAIN ops, outcome \in PriceOutcomes, quotaOk \in BOOLEAN :
        LET op == ops[i]
            f == fetchPrices(localStorage, outcome, now, quotaOk)
        IN  /\ op.price = Pending
            /\ localStorage' = f.storage
            /\ call' = f.call
            /\ UNCHANGED serverVars
            /\ UNCHANGED <<timerVars, alertVars>>
            /\ allPrices' = IF f.result.isNull THEN allPrices ELSE f.result.v
            /\ ops' = DropOver([ops EXCEPT ![i].price = PriceStatus(f.result)])
            /\ IF PromiseAll(op.ohlc)
               THEN AfterAwait(op)
               ELSE UNCHANGED <<isStale, error, lastUpdated, isLoading>>
            /\ UNCHANGED <<now, storageAccess, selectedCoin, timeRange,
                           selectedCoinRef, timeRangeRef, chartData,
                           isInitialized, started>>

\* The candle fetch of operation i settles.
ResolveOHLC ==
    \E i \in DOMAIN ops, quotaOk \in BOOLEAN :
      \E outcome \in OHLCOutcomes(ops[i].coinId, ops[i].days) :
        LET op == ops[i]
            f == fetchOHLC(localStorage, op.coinId, op.days, outcome, now, quotaOk)
        IN  /\ op.ohlc = Pending
            /\ localStorage' = f.storage
            /\ call' = f.call
            /\ UNCHANGED serverVars
            /\ UNCHANGED <<timerVars, alertVars>>
            /\ chartData' =
                  IF NonEmpty(f.result) /\ CandleCallbackTest(op)
                  THEN transformOHLC(f.result.v) ELSE chartData
            /\ ops' = DropOver([ops EXCEPT ![i].ohlc = OHLCStatus(f.result)])
            /\ IF PromiseAll(op.price)
               THEN AfterAwait(op)
               ELSE UNCHANGED <<isStale, error, lastUpdated, isLoading>>
            /\ UNCHANGED <<now, storageAccess, selectedCoin, timeRange,
                           selectedCoinRef, timeRangeRef, allPrices,
                           isInitialized, started>>

\* The page opens on an empty or on a used storage.
Init ==
    /\ now = Epoch
    /\ storageAccess \in BOOLEAN
    /\ localStorage \in IF storageAccess THEN {EmptyStorage, UsedStorage}
                         ELSE {EmptyStorage}
    /\ call = NoCall
    /\ UIInit
    /\ ServerInit
    /\ TimerInit
    /\ AlertInit

Next ==
    \/ Tick
    \/ Mount
    \/ AutoRefresh
    \/ VisibilityRegain
    \/ HandleCoinChange
    \/ HandleTimeRangeChange
    \/ HandleManualRefresh
    \/ ResolvePrices
    \/ ResolveOHLC

Spec == Init /\ [][Next]_vars

----------------------------------------------------------------------------
(* Claims about the Sync Orchestrator, checked under Spec *)

\* The chart of version v of the series of (coinId, days), and every chart of
\* (coinId, days).
ChartOf(coinId, days, v) == transformOHLC(<<Candle(coinId, days, v)>>)
ChartsOf(coinId, days) == {ChartOf(coinId, days, v) : v \in 1..2}

\* This step settles the candle fetch, or the price fetch, of operation i.
SettlesOHLC(i) ==
    /\ ops[i].ohlc = Pending
    /\ started' = started
    /\ \E s \in Settled : ops' = DropOver([ops EXCEPT ![i].ohlc = s])
SettlesPrices(i) ==
    /\ ops[i].price = Pending
    /\ started' = started
    /\ \E s \in Settled : ops' = DropOver([ops EXCEPT ![i].price = s])

\* The fetch this step settles returned a non-empty series, or a snapshot:
\* the fetch functions save exactly then.
ReturnsSeries == call'.op = "saveOHLCToCache"
ReturnsSnapshot == call'.op = "savePricesToCache"

\* The operation was started for the selection the user now looks at.
ForCurrentSelection(op) == op.coinId = selectedCoin /\ op.days = timeRange

\* C1: stale-selection discard.  When a candle fetch started for (s, r) by
\* any path settles while (s, r) is not the selected (coin, range), the
\* displayed chart stays as it is.
C1_StaleSelectionDiscard ==
    [][\A i \in DOMAIN ops :
          (SettlesOHLC(i) /\ ~ForCurrentSelection(ops[i]))
              => chartData' = chartData]_vars

\* C2: a candle fetch of (s, r) that settles with a non-empty series after its
\* selection was abandoned calls saveOHLCToCache with that series under the key
\* of (s, r); a persisted write leaves that key holding the series stamped now,
\* and whether it persists or not every other item of the storage, the price
\* entry included, is what it was.
C2_AbandonedFetchWritesOwnKey ==
    [][\A i \in DOMAIN ops :
          (SettlesOHLC(i) /\ ReturnsSeries /\ ~ForCurrentSelection(ops[i])) =>
              LET key == OHLCKey(ops[i].coinId, ops[i].days) IN
              /\ call'.key = key
              /\ call'.arg \in SeriesOf(ops[i].coinId, ops[i].days)
              /\ call'.stored =>
                    /\ DOMAIN localStorage' = DOMAIN localStorage \cup {key}
                    /\ localStorage'[key] = Stringify(call'.arg, now)
              /\ ~call'.stored => localStorage' = localStorage
              /\ \A k \in DOMAIN localStorage \ {key} :
                    k \in DOMAIN localStorage' /\ localStorage'[k] = localStorage[k]]_vars

\* C2 witness: the candle fetch of an abandoned range has just been saved under
\* its own key beside the price entry and the entry of the selected range,
\* whose series the chart shows.
C2_Witness ==
    /\ call.op = "saveOHLCToCache"
    /\ call.stored
    /\ call.key = OHLCKey("bitcoin", 1)
    /\ selectedCoin = "bitcoin" /\ timeRange = 7
    /\ localStorage[call.key] = Stringify(<<Candle("bitcoin", 1, 2)>>, now)
    /\ HoldsEntry(localStorage, PRICE_CACHE_KEY)
    /\ HoldsEntry(localStorage, OHLCKey("bitcoin", 7))
    /\ chartData \in ChartsOf("bitcoin", 7)

\* C3: last-write-wins is scoped to the latest selection.  At the step that
\* settles the last candle fetch in flight, if a candle fetch started for the
\* selected (coin, range) has returned a non-empty series, the displayed chart
\* is a series of the selected (coin, range).
C3_LatestSelectionWins ==
    [][\A i \in DOMAIN ops :
          ( /\ SettlesOHLC(i)
            /\ \A j \in DOMAIN ops \ {i} : ops[j].ohlc # Pending
            /\ \E j \in DOMAIN ops :
                  /\ ForCurrentSelection(ops[j])
                  /\ ops[j].ohlc = "data" \/ (j = i /\ ReturnsSeries) )
              => chartData' \in ChartsOf(selectedCoin, timeRange)]_vars

\* C4: a later-started cycle is not clobbered by an earlier one.  When the
\* price fetch of an operation returns a snapshot after the price fetch of an
\* operation started later has returned one, the displayed snapshot and the
\* stored price entry stay as they are.
C4_LaterCycleNotClobbered ==
    [][\A i \in DOMAIN ops :
          ( /\ SettlesPrices(i)
            /\ ReturnsSnapshot
            /\ \E j \in DOMAIN ops : j > i /\ ops[j].price = "data" )
              => /\ allPrices' = allPrices
                 /\ getItem(localStorage', PRICE_CACHE_KEY) =
                        getItem(localStorage, PRICE_CACHE_KEY)]_vars

\* C9: a put whose persistence fails raises nothing and leaves the storage,
\* the entry of its key included, as it was; the fetch that made it still hands
\* the fetched value on: the snapshot becomes the displayed prices, and the
\* series of the selected (coin, range) becomes the displayed chart.
C9_FailedPutSwallowed ==
    [][(call'.op \in SaveOps /\ ~call'.stored) =>
          /\ ~call'.outcome.threw
          /\ localStorage' = localStorage
          /\ call'.op = "savePricesToCache" => allPrices' = call'.arg
          /\ (call'.op = "saveOHLCToCache"
                /\ call'.key = OHLCKey(selectedCoin, timeRange))
                => chartData' = transformOHLC(call'.arg)]_vars

\* C9 witness: a price fetch has returned a snapshot whose save failed on the
\* quota: the stored price entry is the older one, the display is the new one.
C9_Witness ==
    /\ call.op = "savePricesToCache"
    /\ ~call.stored
    /\ storageAccess
    /\ allPrices = call.arg
    /\ HoldsEntry(localStorage, PRICE_CACHE_KEY)
    /\ localStorage[PRICE_CACHE_KEY].data # call.arg


\* This step runs loadAllData up to its await: on mount, or from the timer or
\* the visibility handler, which change neither the selection nor the store
\* and start at most an operation of loadAllData.
LoadStep ==
    \/ ~isInitialized /\ isInitialized'
    \/ /\ isInitialized
       /\ UNCHANGED <<now, localStorage, selectedCoin, timeRange>>
       /\ \/ ops' = ops /\ started' = started
          \/ /\ started' = started + 1
             /\ ops' = Append(ops, ops'[Len(ops')])
             /\ ops'[Len(ops')].kind = "loadAllData"

\* The operation this step started issued a price fetch, a candle fetch.
IssuesPriceFetch == started' = started + 1 /\ ops'[Len(ops')].price = Pending
IssuesOHLCFetch == started' = started + 1 /\ ops'[Len(ops')].ohlc = Pending

\* What the store holds for the price stream and for the candle stream of
\* the selection the step leaves.
PriceTier == getPricesFromCache(localStorage, now).value
OHLCTier == getOHLCFromCache(localStorage, selectedCoin', timeRange', now).value

\* C17: loadAllData decides per stream.  A FRESH entry is put in UI state and
\* no fetch is issued for that stream; a STALE entry is put in UI state and a
\* fetch is issued; with no usable entry nothing is put in UI state and a
\* fetch is issued.  A fetch is issued if and only if the tier is not FRESH.
C17_PerStreamFetchDecision ==
    [][ LoadStep =>
          /\ IssuesPriceFetch <=> ~PriceTier.isFresh
          /\ IssuesOHLCFetch <=> ~OHLCTier.isFresh
          /\ allPrices' = IF PriceTier.isFresh \/ PriceTier.isStale
                          THEN PriceTier.data.v ELSE allPrices
          /\ chartData' = IF OHLCTier.isFresh \/ OHLCTier.isStale
                          THEN transformOHLC(OHLCTier.data.v) ELSE chartData ]_vars

\* C17 witness: a load that found the prices STALE and no candles is under
\* way: the stale snapshot is displayed, the chart is empty, both fetches are
\* in flight (the price fetch as a forced refresh), the stale indicator is set.
C17_Witness ==
    /\ isInitialized
    /\ PriceTier.isStale
    /\ allPrices = PriceTier.data.v
    /\ getOHLCFromCache(localStorage, selectedCoin, timeRange, now).value = Absent
    /\ chartData = <<>>
    /\ Len(ops) = 1
    /\ ops[1].kind = "loadAllData"
    /\ ops[1].price = Pending /\ ops[1].forcePrices
    /\ ops[1].ohlc = Pending /\ ~ops[1].forceOHLC
    /\ isStale

\* C18: when both streams are FRESH loadAllData starts no fetch, sets the
\* error to null and sets last-updated to the time the price entry was
\* written, marked as cached.
C18_AllFreshNoFetch ==
    [][ (LoadStep /\ PriceTier.isFresh /\ OHLCTier.isFresh) =>
          /\ started' = started
          /\ ops' = ops
          /\ error' = Null
          /\ lastUpdated' = [time |-> formatTime(PriceTier.timestamp.v),
                             cached |-> TRUE]
          /\ isLoading' = isLoading ]_vars

\* C18 witness: the price entry of an earlier session and the candles fetched
\* in this one are both FRESH and written at different times; no fetch is in
\* flight and last-updated shows the price entry's time, marked as cached,
\* which is not the current time.
C18_Witness ==
    /\ isInitialized
    /\ PriceTier.isFresh
    /\ getOHLCFromCache(localStorage, selectedCoin, timeRange, now).value.isFresh
    /\ PriceTier.timestamp
         # getOHLCFromCache(localStorage, selectedCoin, timeRange, now).value.timestamp
    /\ ops = <<>>
    /\ started > 0
    /\ lastUpdated = [time |-> formatTime(PriceTier.timestamp.v), cached |-> TRUE]
    /\ formatTime(PriceTier.timestamp.v) # formatTime(now)
    /\ error = Null

\* C19: for every trigger, isLoading becomes true only if the store held a
\* value, FRESH or STALE, neither for the price stream nor for the candle
\* stream of the target at that moment.
C19_LoadingOnlyOnColdStart ==
    [][ (isLoading' /\ ~isLoading) =>
          /\ PriceTier.data.isNull
          /\ OHLCTier.data.isNull ]_vars

\* This step settles a fetch of operation i, which is a load cycle.
SettlesInCycle(i) ==
    /\ ops[i].kind = "loadAllData"
    /\ SettlesPrices(i) \/ SettlesOHLC(i)

\* The fetch of operation i that this step settles is its last one in flight.
SettlesLast(i) ==
    \/ SettlesPrices(i) /\ ops[i].ohlc # Pending
    \/ SettlesOHLC(i) /\ ops[i].price # Pending

\* C20: in a load cycle that issued fetches, a step that settles one fetch
\* while another of the cycle is in flight leaves the stale indicator, the
\* error and last-updated alone; the step that settles the last one clears
\* the stale indicator and the error and stamps last-updated with the current
\* time.  Last-updated gets a live stamp in no other step.
C20_ClearedAfterAllSettled ==
    [][ /\ \A i \in DOMAIN ops :
              SettlesInCycle(i) =>
                IF SettlesLast(i)
                THEN /\ isStale' = FALSE
                     /\ error' = Null
                     /\ lastUpdated' = LiveStamp(now)
                ELSE UNCHANGED <<isStale, error, lastUpdated>>
        /\ (lastUpdated' # lastUpdated /\ lastUpdated' = LiveStamp(now)) =>
              \E i \in DOMAIN ops :
                 /\ SettlesLast(i)
                 /\ ops[i].kind \in {"loadAllData", "handleManualRefresh"} ]_vars

\* C20 witness: a load cycle that found stale prices issued both fetches; the
\* price fetch has settled and the candle fetch is in flight; the stale
\* indicator is still set and last-updated has not been stamped.
C20_Witness ==
    \E i \in DOMAIN ops :
        /\ ops[i].kind = "loadAllData"
        /\ ops[i].price = "data"
        /\ ops[i].ohlc = Pending
        /\ isStale
        /\ allPrices = PartialSnapshot(3)
        /\ lastUpdated = [text |-> "--"]

\* The price fetch of operation i fails in this step: fetchPrices returns
\* null exactly when it made no save call.
PriceFetchFails(i) == SettlesPrices(i) /\ call' = NoCall

\* The store holds no value, FRESH or STALE, for the price stream; for the
\* candle stream of operation i.
NoCachedPrices == PriceTier.data.isNull
NoCachedOHLC(i) ==
    getOHLCFromCache(localStorage, ops[i].coinId, ops[i].days, now).value.data.isNull

\* The cycle of operation i ends in this step with a failed fetch of a stream
\* that has no cached value; with a failed fetch of a stream that has one.
EndsFailedWithoutCache(i) ==
    /\ SettlesLast(i)
    /\ \/ PriceFetchFails(i) /\ NoCachedPrices
       \/ SettlesOHLC(i) /\ ops[i].price = "failed" /\ NoCachedPrices
       \/ SettlesPrices(i) /\ ops[i].ohlc = "failed" /\ NoCachedOHLC(i)
EndsFailedWithCache(i) ==
    /\ SettlesLast(i)
    /\ ~EndsFailedWithoutCache(i)
    /\ \/ PriceFetchFails(i) /\ ~NoCachedPrices
       \/ SettlesPrices(i) /\ ops[i].ohlc = "failed" /\ ~NoCachedOHLC(i)

\* C21: when a fetch has failed and its stream has no cached value, the error
\* is a non-null string at the latest when the cycle of that fetch ends; a
\* failure of a stream that has a cached value sets no error.
C21_ErrorSurfacedWithoutCache ==
    [][ \A i \in DOMAIN ops :
          /\ EndsFailedWithoutCache(i) => ~error'.isNull
          /\ EndsFailedWithCache(i) => error' = error ]_vars

\* This step makes a call that issues a fetch.
StartsCall == started' = started + 1

\* The candle fetch of operation i fails, or returns an empty series, in this
\* step: fetchOHLC made no save call.
OHLCFetchFails(i) == SettlesOHLC(i) /\ call' = NoCall

\* C22: a failing call leaves what was rendered on screen.  Any fetch may
\* fail, so: the step that makes a call never turns a non-empty displayed
\* snapshot or a non-empty chart into an empty one (it may paint the cached
\* value of its target), and the step in which a fetch fails changes neither
\* the displayed snapshot nor the chart.
C22_FailureKeepsRenderedData ==
    [][ /\ StartsCall =>
              /\ chartData # <<>> => chartData' # <<>>
              /\ DOMAIN allPrices # {} => DOMAIN allPrices' # {}
        /\ \A i \in DOMAIN ops :
              (PriceFetchFails(i) \/ OHLCFetchFails(i)) =>
                 chartData' = chartData /\ allPrices' = allPrices ]_vars

\* This step is a coin switch or a range switch.
SwitchStep ==
    isInitialized /\ (selectedCoin' # selectedCoin \/ timeRange' # timeRange)

\* C25: a coin or range switch is debounced: it paints the cached series of
\* the new target in the same step and issues no fetch in that step, the
\* fetch of the new target waiting for a quiet period of DEBOUNCE_MS.
C25_DebouncedSwitch ==
    [][ SwitchStep =>
          /\ NonEmpty(OHLCTier.data) => chartData' = transformOHLC(OHLCTier.data.v)
          /\ now' = now
          /\ ~StartsCall ]_vars

----------------------------------------------------------------------------
(* src/app/api/prices/route.ts and src/app/api/ohlc/route.ts: the Fetch     *)
(* Gateways.  One server process; a request runs to its upstream fetch,     *)
(* other requests run meanwhile, and it resumes on the upstream response.   *)

\* Requests that reach upstream in one run, and the instants of the server's
\* clock: the schedule of Instant above, walked further.
MaxRequests == 2
MaxServerInstant == 3
ServerInstants == {Instant(i) : i \in 0..MaxServerInstant}

\* FRESH_TTL and STALE_TTL of the two route files.
GATEWAY_FRESH_TTL == 60000
GATEWAY_STALE_TTL == 900000

\* SUPPORTED_COINS, and the coins requests name: a supported and an
\* unsupported one.
SUPPORTED_COINS == {"bitcoin", "ethereum", "solana"}
GatewayCoins == {"bitcoin", "dogecoin"}

\* A shared entry: { data, timestamp }.
Entry(data, timestamp) == [isNull |-> FALSE, data |-> data, timestamp |-> timestamp]

\* `${coinId}-${days}`
GatewayKey(coinId, days) == coinId \o "-" \o ToString(days)

\* ohlcCache.get(cacheKey)
MapGet(map, key) == IF key \in DOMAIN map THEN map[key] ELSE NoEntry

\* ohlcCache.set(cacheKey, entry)
MapSet(map, key, entry) ==
    [k \in DOMAIN map \cup {key} |-> IF k = key THEN entry ELSE map[k]]

\* One element of the markets array: a coin with its current_price (null or a
\* number), or null in place of a coin.  The two change fields are normalised
\* the same way as the price and play no part in any decision.
Market(id, price) == [isNull |-> FALSE, id |-> id, current_price |-> price]

\* What upstream answers: 429, another non-2xx status, a network error, a body
\* that is not JSON, or a JSON body: an array, or an object that is no array.
RateLimited == [kind |-> "429"]
HttpError == [kind |-> "http-error"]
NetworkError == [kind |-> "network-error"]
NotJSON == [kind |-> "not-json"]
JsonArray(items) == [kind |-> "json", shape |-> "array", items |-> items]
JsonObject == [kind |-> "json", shape |-> "object"]

\* The markets arrays upstream answers with: every coin at price 1, bitcoin
\* alone at price 3, bitcoin alone with no price, and an array holding null.
MarketsBodies ==
    { [i \in 1..3 |-> Market(COINS[i], Val(1))],
      <<Market("bitcoin", Val(3))>>,
      <<Market("bitcoin", Null)>>,
      <<Market("bitcoin", Val(3)), Null>> }

PricesUpstream ==
    {RateLimited, HttpError, NetworkError, NotJSON, JsonObject}
        \cup {JsonArray(b) : b \in MarketsBodies}

OHLCUpstream(coinId, days) ==
    {RateLimited, HttpError, NetworkError, NotJSON, JsonObject}
        \cup {JsonArray(b) : b \in OHLCPayloads(coinId, days)}

\* The bodies of the gateways' responses.
PricesBody(prices, stale) == [json |-> "prices", prices |-> prices, isStale |-> stale]
OHLCBody(ohlc, stale) == [json |-> "ohlc", ohlc |-> ohlc, isStale |-> stale]
ErrorBody(message) == [json |-> "error", error |-> message]

\* No upstream call was made for a response.
NoUpstream == [kind |-> "none"]

\* What the page's fetch function made of a response: nothing yet.
NotFetched == [threw |-> FALSE, value |-> Null]

\* NextResponse.json(body, { status }), with what the request was (id 0 when
\* it was answered without an upstream call) and what upstream had answered;
\* then whether the page has received it or lost it on the network, and what
\* the page's fetch function returned or threw.
Response(id, route, key, forceRefresh, upstream, status, body) ==
    [id |-> id, route |-> route, key |-> key, forceRefresh |-> forceRefresh,
     upstream |-> upstream, status |-> status, body |-> body, delivered |-> FALSE,
     lost |-> FALSE, fetched |-> NotFetched]

\* coin.current_price ?? 0
OrZero(price) == IF price.isNull THEN 0 ELSE price.v

\* The last element of the array with the given id: later assignments to
\* prices[coin.id] overwrite earlier ones.
LastOf(items, id) ==
    items[CHOOSE i \in DOMAIN items :
            /\ items[i].id = id
            /\ \A j \in DOMAIN items : items[j].id = id => j <= i]

\* The transform loop of the price gateway (lines 63-70): throws on a body
\* that is not iterable and on an element that is null.
NormalizePrices(body) ==
    IF body.shape # "array" THEN Thrown
    ELSE IF \E i \in DOMAIN body.items : body.items[i].isNull THEN Thrown
    ELSE Returned([id \in {body.items[i].id : i \in DOMAIN body.items} |->
                      CoinPrice(OrZero(LastOf(body.items, id).current_price))])

\* Array.isArray(data) ? data : []
NormalizeOHLC(body) == IF body.shape = "array" THEN body.items ELSE <<>>

\* The cache check of both gateways (prices lines 27-39, ohlc lines 29-39):
\* whether the request is answered from the entry, and with which isStale.
Miss == [hit |-> FALSE]
Hit(stale) == [hit |-> TRUE, isStale |-> stale]

\* CacheCheck with both comparisons inclusive.
CacheCheckInclusive(entry, forceRefresh, t) ==
    IF ~entry.isNull /\ ~forceRefresh
    THEN IF t - entry.timestamp <= GATEWAY_FRESH_TTL THEN Hit(FALSE)
         ELSE IF t - entry.timestamp <= GATEWAY_STALE_TTL THEN Hit(TRUE)
         ELSE Miss
    ELSE Miss

CacheCheck(entry, forceRefresh, t) ==
    IF ~entry.isNull /\ ~forceRefresh
    THEN IF t - entry.timestamp < GATEWAY_FRESH_TTL THEN Hit(FALSE)
         ELSE IF t - entry.timestamp < GATEWAY_STALE_TTL THEN Hit(TRUE)
         ELSE Miss
    ELSE Miss

\* What a gateway leaves and answers: the shared cache, the status, the body.
Outcome(cache, status, body) == [cache |-> cache, status |-> status, body |-> body]

\* PricesAfterFetch that replaces the data of an existing entry and keeps
\* its timestamp.
PricesAfterFetchKeepsTimestamp(cache, upstream, t) ==
    IF upstream.kind = "429"
    THEN IF ~cache.isNull
         THEN Outcome(cache, 200, PricesBody(cache.data, TRUE))
         ELSE Outcome(cache, 429, ErrorBody("Rate limited"))
    ELSE LET try == IF upstream.kind = "json" THEN NormalizePrices(upstream)
                    ELSE Thrown
             stamp == IF cache.isNull THEN t ELSE cache.timestamp
         IN  IF try.threw
             THEN IF ~cache.isNull
                  THEN Outcome(cache, 200, PricesBody(cache.data, TRUE))
                  ELSE Outcome(cache, 500, ErrorBody("Failed to fetch prices"))
             ELSE Outcome(Entry(try.value, stamp), 200, PricesBody(try.value, FALSE))

\* PricesAfterFetch that keeps the coins of the previous entry which the new
\* payload does not mention.
PricesAfterFetchMerging(cache, upstream, t) ==
    IF upstream.kind = "429"
    THEN IF ~cache.isNull
         THEN Outcome(cache, 200, PricesBody(cache.data, TRUE))
         ELSE Outcome(cache, 429, ErrorBody("Rate limited"))
    ELSE LET try == IF upstream.kind = "json" THEN NormalizePrices(upstream)
                    ELSE Thrown
             merged == IF cache.isNull THEN try.value
                       ELSE [id \in DOMAIN try.value \cup DOMAIN cache.data |->
                               IF id \in DOMAIN try.value THEN try.value[id]
                               ELSE cache.data[id]]
         IN  IF try.threw
             THEN IF ~cache.isNull
                  THEN Outcome(cache, 200, PricesBody(cache.data, TRUE))
                  ELSE Outcome(cache, 500, ErrorBody("Failed to fetch prices"))
             ELSE Outcome(Entry(merged, t), 200, PricesBody(merged, FALSE))

\* The price gateway from the upstream response on (lines 48-85).  It reads
\* priceCache when it falls back, after the await.
PricesAfterFetch(cache, upstream, t) ==
    IF upstream.kind = "429"
    THEN IF ~cache.isNull
         THEN Outcome(cache, 200, PricesBody(cache.data, TRUE))
         ELSE Outcome(cache, 429, ErrorBody("Rate limited"))
    ELSE LET try == IF upstream.kind = "json" THEN NormalizePrices(upstream)
                    ELSE Thrown
         IN  IF try.threw
             THEN IF ~cache.isNull
                  THEN Outcome(cache, 200, PricesBody(cache.data, TRUE))
                  ELSE Outcome(cache, 500, ErrorBody("Failed to fetch prices"))
             ELSE Outcome(Entry(try.value, t), 200, PricesBody(try.value, FALSE))

\* OHLCAfterFetch that caches an empty series too.
OHLCAfterFetchWritesEmpty(map, key, cached, upstream, t) ==
    IF upstream.kind = "429"
    THEN IF ~cached.isNull
         THEN Outcome(map, 200, OHLCBody(cached.data, TRUE))
         ELSE Outcome(map, 429, ErrorBody("Rate limited"))
    ELSE IF upstream.kind # "json"
    THEN IF ~cached.isNull
         THEN Outcome(map, 200, OHLCBody(cached.data, TRUE))
         ELSE Outcome(map, 500, ErrorBody("Failed to fetch OHLC"))
    ELSE LET ohlc == NormalizeOHLC(upstream) IN
         Outcome(MapSet(map, key, Entry(ohlc, t)), 200, OHLCBody(ohlc, FALSE))

\* The candle gateway from the upstream response on (lines 47-75).  It falls
\* back on `cached`, the entry it read before the await.
OHLCAfterFetch(map, key, cached, upstream, t) ==
    IF upstream.kind = "429"
    THEN IF ~cached.isNull
         THEN Outcome(map, 200, OHLCBody(cached.data, TRUE))
         ELSE Outcome(map, 429, ErrorBody("Rate limited"))
    ELSE IF upstream.kind # "json"
    THEN IF ~cached.isNull
         THEN Outcome(map, 200, OHLCBody(cached.data, TRUE))
         ELSE Outcome(map, 500, ErrorBody("Failed to fetch OHLC"))
    ELSE LET ohlc == NormalizeOHLC(upstream) IN
         Outcome(IF Len(ohlc) > 0 THEN MapSet(map, key, Entry(ohlc, t)) ELSE map,
                 200, OHLCBody(ohlc, FALSE))

\* A request that awaits upstream.
Request(id, route, key, forceRefresh, cached) ==
    [id |-> id, route |-> route, key |-> key, forceRefresh |-> forceRefresh,
     cached |-> cached]

\* The client variables, which the server leaves alone.
clientVars == <<storageAccess, localStorage, call, selectedCoin, timeRange,
                selectedCoinRef, timeRangeRef, allPrices, chartData,
                lastUpdated, isLoading, isStale, error, isInitialized,
                started, ops>>

\* The server's clock moves on.
ServerTick ==
    /\ \E t \in ServerInstants : t > now /\ now' = t
    /\ UNCHANGED serverVars
    /\ UNCHANGED clientVars
    /\ UNCHANGED <<timerVars, alertVars>>

\* GET /api/prices up to its upstream fetch (lines 22-46).
RequestPrices ==
    /\ \E forceRefresh \in BOOLEAN :
          LET check == CacheCheck(priceCache, forceRefresh, now) IN
          IF check.hit
          THEN /\ reply' = Response(0, "prices", "prices", forceRefresh, NoUpstream,
                                    200, PricesBody(priceCache.data, check.isStale))
               /\ UNCHANGED <<inflight, requested>>
          ELSE /\ requested < MaxRequests
               /\ requested' = requested + 1
               /\ inflight' = inflight \cup
                     {Request(requested + 1, "prices", "prices", forceRefresh,
                              priceCache)}
               /\ UNCHANGED reply
    /\ UNCHANGED <<now, priceCache, ohlcCacheMap>>
    /\ UNCHANGED clientVars
    /\ UNCHANGED <<timerVars, alertVars>>

\* GET /api/ohlc up to its upstream fetch (lines 15-45).
RequestOHLC ==
    /\ \E coinId \in GatewayCoins, days \in Ranges, forceRefresh \in BOOLEAN :
          LET cacheKey == GatewayKey(coinId, days)
              cached == MapGet(ohlcCacheMap, cacheKey)
              check == CacheCheck(cached, forceRefresh, now)
          IN  IF coinId \notin SUPPORTED_COINS
              THEN /\ reply' = Response(0, "ohlc", cacheKey, forceRefresh, NoUpstream,
                                        400, ErrorBody("Unsupported coin"))
                   /\ UNCHANGED <<inflight, requested>>
              ELSE IF check.hit
              THEN /\ reply' = Response(0, "ohlc", cacheKey, forceRefresh, NoUpstream,
                                        200, OHLCBody(cached.data, check.isStale))
                   /\ UNCHANGED <<inflight, requested>>
              ELSE /\ requested < MaxRequests
                   /\ requested' = requested + 1
                   /\ inflight' = inflight \cup
                         {Request(requested + 1, "ohlc", cacheKey, forceRefresh,
                                  cached)}
                   /\ UNCHANGED reply
    /\ UNCHANGED <<now, priceCache, ohlcCacheMap>>
    /\ UNCHANGED clientVars
    /\ UNCHANGED <<timerVars, alertVars>>

\* Upstream answers a price request, and the gateway responds (lines 48-85).
PricesUpstreamResponds ==
    /\ \E r \in inflight, upstream \in PricesUpstream :
          LET out == PricesAfterFetch(priceCache, upstream, now) IN
          /\ r.route = "prices"
          /\ priceCache' = out.cache
          /\ reply' = Response(r.id, "prices", r.key, r.forceRefresh, upstream,
                               out.status, out.body)
          /\ inflight' = inflight \ {r}
    /\ UNCHANGED <<now, ohlcCacheMap, requested>>
    /\ UNCHANGED clientVars
    /\ UNCHANGED <<timerVars, alertVars>>

\* Upstream answers a candle request, and the gateway responds (lines 47-75).
OHLCUpstreamResponds ==
    /\ \E r \in inflight, coinId \in SUPPORTED_COINS, days \in Ranges :
        \E upstream \in OHLCUpstream(coinId, days) :
          LET out == OHLCAfterFetch(ohlcCacheMap, r.key, r.cached, upstream, now) IN
          /\ r.route = "ohlc"
          /\ r.key = GatewayKey(coinId, days)
          /\ ohlcCacheMap' = out.cache
          /\ reply' = Response(r.id, "ohlc", r.key, r.forceRefresh, upstream,
                               out.status, out.body)
          /\ inflight' = inflight \ {r}
    /\ UNCHANGED <<now, priceCache, requested>>
    /\ UNCHANGED clientVars
    /\ UNCHANGED <<timerVars, alertVars>>

\* What fetch() and the two tests after it (lines 218-224, 240-245) make of a
\* response: a rejected fetch, a non-OK status and an error body are failures,
\* anything else gives the body's data.
ResponseOutcome(lost, status, body, data) ==
    IF lost \/ status \notin 200..299 \/ body.json = "error"
    THEN FetchFailed ELSE FetchOk(data)

\* What the caller of a fetch function gets: its return value, or that it
\* threw.
Fetched(f) == [threw |-> f.threw, value |-> f.result]

\* The page's fetchPrices receives the price gateway's response, or loses it
\* on the network (page.tsx lines 218-229), and its caller's callback commits
\* what it returns (lines 315-319, 458).  The caller's join is in Spec.
FetchPricesReceives ==
    /\ reply.route = "prices"
    /\ ~reply.delivered
    /\ \E quotaOk \in BOOLEAN, lost \in BOOLEAN :
          LET outcome == ResponseOutcome(lost, reply.status, reply.body,
                                         IF reply.body.json = "prices"
                                         THEN reply.body.prices ELSE Null)
              f == fetchPrices(localStorage, outcome, now, quotaOk)
          IN  /\ localStorage' = f.storage
              /\ call' = f.call
              /\ allPrices' = IF f.threw \/ f.result.isNull THEN allPrices
                              ELSE f.result.v
              /\ reply' = [reply EXCEPT !.delivered = TRUE, !.lost = lost,
                                        !.fetched = Fetched(f)]
    /\ UNCHANGED <<now, storageAccess, priceCache, ohlcCacheMap, inflight,
                   requested, selectedCoin, timeRange, selectedCoinRef,
                   timeRangeRef, chartData, lastUpdated, isLoading, isStale,
                   error, isInitialized, started, ops>>
    /\ UNCHANGED <<timerVars, alertVars>>

\* The page's fetchOHLC receives the candle gateway's response, or loses it
\* on the network (lines 239-252), and the callback of loadAllData commits
\* what it returns (lines 325-329).
FetchOHLCReceives ==
    /\ reply.route = "ohlc"
    /\ ~reply.delivered
    /\ \E coinId \in GatewayCoins, days \in Ranges, quotaOk \in BOOLEAN,
          lost \in BOOLEAN :
          LET outcome == ResponseOutcome(lost, reply.status, reply.body,
                                         IF reply.body.json = "ohlc"
                                         THEN reply.body.ohlc ELSE Null)
              f == fetchOHLC(localStorage, coinId, days, outcome, now, quotaOk)
          IN  /\ reply.key = GatewayKey(coinId, days)
              /\ localStorage' = f.storage
              /\ call' = f.call
              /\ chartData' =
                    IF /\ ~f.threw
                       /\ NonEmpty(f.result)
                       /\ IsCurrentSelection(coinId, days, selectedCoinRef,
                                             timeRangeRef)
                    THEN transformOHLC(f.result.v) ELSE chartData
              /\ reply' = [reply EXCEPT !.delivered = TRUE, !.lost = lost,
                                        !.fetched = Fetched(f)]
    /\ UNCHANGED <<now, storageAccess, priceCache, ohlcCacheMap, inflight,
                   requested, selectedCoin, timeRange, selectedCoinRef,
                   timeRangeRef, allPrices, lastUpdated, isLoading, isStale,
                   error, isInitialized, started, ops>>
    /\ UNCHANGED <<timerVars, alertVars>>

\* The server has just started; the page has an empty storage.
GatewayInit ==
    /\ now = Epoch
    /\ storageAccess = TRUE
    /\ localStorage = EmptyStorage
    /\ call = NoCall
    /\ UIInit
    /\ ServerInit
    /\ TimerInit
    /\ AlertInit

GatewayNext ==
    \/ ServerTick
    \/ RequestPrices
    \/ RequestOHLC
    \/ PricesUpstreamResponds
    \/ OHLCUpstreamResponds
    \/ FetchPricesReceives
    \/ FetchOHLCReceives

SpecGateway == GatewayInit /\ [][GatewayNext]_vars

----------------------------------------------------------------------------
(* Claims about the Fetch Gateways, checked under SpecGateway *)

\* The shared entry a route holds for a key.
SharedEntry(route, key, prices, map) ==
    IF route = "prices" THEN prices ELSE MapGet(map, key)

\* The response body of a route that carries data.
DataBody(route, data, stale) ==
    IF route = "prices" THEN PricesBody(data, stale) ELSE OHLCBody(data, stale)

\* This step sends a response; this step sends request r upstream.
Responds == reply' # reply /\ ~reply'.delivered
SentUpstream == inflight' \ inflight

\* C11: gateway cache hit.  A response sent without an upstream call that
\* carries data answers a request with forceRefresh false from a shared entry
\* of age < 900 s: it carries the entry's data with isStale = false when the
\* age is below 60 s and isStale = true otherwise, and the shared cache and
\* the set of upstream calls are as before.  A request with forceRefresh false
\* goes upstream only when its key has no entry of age < 900 s.
C11_GatewayCacheHit ==
    [][ /\ (Responds /\ reply'.upstream = NoUpstream /\ reply'.status = 200) =>
              LET entry == SharedEntry(reply'.route, reply'.key, priceCache,
                                       ohlcCacheMap)
              IN  /\ ~reply'.forceRefresh
                  /\ ~entry.isNull
                  /\ now - entry.timestamp < 900 * 1000
                  /\ reply'.body = DataBody(reply'.route, entry.data,
                                            now - entry.timestamp >= 60 * 1000)
                  /\ priceCache' = priceCache
                  /\ ohlcCacheMap' = ohlcCacheMap
                  /\ inflight' = inflight /\ requested' = requested
        /\ \A r \in SentUpstream :
              LET entry == SharedEntry(r.route, r.key, priceCache, ohlcCacheMap)
              IN  ~r.forceRefresh =>
                      entry.isNull \/ now - entry.timestamp >= 900 * 1000 ]_vars

\* C11 witness: the price gateway has answered from an entry of age exactly
\* FRESH_TTL, tagged stale, while a candle entry is FRESH.
C11_Witness ==
    /\ reply.route = "prices"
    /\ reply.upstream = NoUpstream
    /\ reply.status = 200
    /\ reply.body.isStale
    /\ ~priceCache.isNull
    /\ now - priceCache.timestamp = GATEWAY_FRESH_TTL
    /\ \E key \in DOMAIN ohlcCacheMap :
          CacheCheck(ohlcCacheMap[key], FALSE, now) = Hit(FALSE)
\* Upstream answered this step's response with a body that normalizes, and
\* the normalized payload.
UpstreamSucceeded ==
    /\ Responds
    /\ reply'.upstream.kind = "json"
    /\ IF reply'.route = "prices" THEN ~NormalizePrices(reply'.upstream).threw
       ELSE reply'.upstream.shape = "array"
Normalized(route, upstream) ==
    IF route = "prices" THEN NormalizePrices(upstream).value
    ELSE NormalizeOHLC(upstream)

\* The data a response body carries.
BodyData(body) == IF body.json = "prices" THEN body.prices ELSE body.ohlc

\* A response that is not answered from the cache answers a request that had
\* forceRefresh set or found no entry younger than 900 s.
CallsUpstreamOnMiss ==
    \A r \in SentUpstream :
        LET entry == SharedEntry(r.route, r.key, priceCache, ohlcCacheMap) IN
        r.forceRefresh \/ entry.isNull \/ now - entry.timestamp >= 900 * 1000

SharedCacheUnchanged == priceCache' = priceCache /\ ohlcCacheMap' = ohlcCacheMap

\* The fallback the specification gives a failed upstream call: the shared
\* entry of the key, of any age, tagged stale; the error only without one.
FallsBackOnEntry(errorStatuses) ==
    LET entry == SharedEntry(reply'.route, reply'.key, priceCache, ohlcCacheMap) IN
    /\ ~entry.isNull =>
          /\ reply'.status = 200
          /\ reply'.body = DataBody(reply'.route, entry.data, TRUE)
    /\ entry.isNull =>
          /\ reply'.status \in errorStatuses
          /\ reply'.body.json = "error"
    /\ SharedCacheUnchanged

\* C13: when upstream answers 429, the gateway returns the shared entry of
\* the key tagged stale if one exists, whatever its age and whether or not
\* forceRefresh was set, and a 429 error only if none exists; the shared cache
\* is unchanged.
C13_RateLimitFallback ==
    [][ (Responds /\ reply'.upstream = RateLimited) => FallsBackOnEntry({429}) ]_vars

\* Upstream answered this step's response with a failure other than 429: no
\* response at all, a non-2xx status, or a body that does not normalize.
UpstreamFailed ==
    /\ Responds
    /\ reply'.upstream \notin {NoUpstream, RateLimited}
    /\ ~UpstreamSucceeded

\* C14: on any other upstream failure (network error, non-2xx other than
\* 429, malformed body) the gateway returns the shared entry tagged stale if
\* one exists and an error without data only if none exists, and leaves the
\* shared cache as it was.
C14_UpstreamFailureFallback ==
    [][ UpstreamFailed => FallsBackOnEntry(400..599) ]_vars

\* The page's fetchPrices has just received the price gateway's response.
Delivers == reply.route = "prices" /\ ~reply.delivered /\ reply'.delivered

\* The coins an upstream markets array mentions.
IdsOf(upstream) == {upstream.items[i].id : i \in DOMAIN upstream.items}

\* C15: the price snapshot is replaced as a whole.  A write of the shared
\* price entry stores exactly the normalized payload of the response, with
\* the coins of that response and no others; a response that fails to
\* normalize writes nothing.  The page's store entry and its displayed
\* prices become exactly the snapshot the gateway returned, and an error
\* response or a response lost on the network changes neither.
C15_FullSnapshotReplacement ==
    [][ /\ priceCache' # priceCache =>
              /\ UpstreamSucceeded
              /\ reply'.route = "prices"
              /\ priceCache'.data = NormalizePrices(reply'.upstream).value
              /\ DOMAIN priceCache'.data = IdsOf(reply'.upstream)
        /\ (Responds /\ reply'.route = "prices" /\ ~UpstreamSucceeded) =>
              priceCache' = priceCache
        /\ Delivers =>
              IF reply'.lost \/ reply.body.json = "error"
              THEN localStorage' = localStorage /\ allPrices' = allPrices
              ELSE /\ allPrices' = reply.body.prices
                   /\ call'.stored =>
                         getPricesFromCache(localStorage', now).value.data
                            = Val(reply.body.prices)
                   /\ ~call'.stored => localStorage' = localStorage ]_vars

\* C15 witness: the page shows and stores the snapshot of every coin at
\* price 1; upstream has since answered with bitcoin alone at price 3, and the
\* shared entry is exactly that one-coin snapshot.
C15_Witness ==
    /\ allPrices = FullSnapshot(1)
    /\ getPricesFromCache(localStorage, now).value.data = Val(FullSnapshot(1))
    /\ reply.route = "prices"
    /\ ~reply.delivered
    /\ reply.upstream = JsonArray(<<Market("bitcoin", Val(3))>>)
    /\ ~priceCache.isNull
    /\ priceCache.data = PartialSnapshot(3)
    /\ reply.body = PricesBody(PartialSnapshot(3), FALSE)

\* The keys of the shared caches: the price entry and every candle entry.
SharedKeys == {<<"prices", "prices">>} \cup
              {<<"ohlc", GatewayKey(c, d)>> : c \in SUPPORTED_COINS, d \in Ranges}

\* C16: under any interleaving of requests, a shared entry changes only by
\* the write of one successful upstream response, which replaces it by that
\* response's complete normalized payload paired with the time of the write;
\* no other entry changes in that step, no entry is ever removed, and a later
\* write overwrites an earlier one whole.
C16_LastWriteWinsNoMerge ==
    [][ \A k \in SharedKeys :
          LET before == SharedEntry(k[1], k[2], priceCache, ohlcCacheMap)
              after == SharedEntry(k[1], k[2], priceCache', ohlcCacheMap')
          IN  after # before =>
                /\ UpstreamSucceeded
                /\ reply'.id \in {r.id : r \in inflight}
                /\ <<reply'.route, reply'.key>> = k
                /\ after = Entry(Normalized(k[1], reply'.upstream), now) ]_vars

\* C16 witness: two price requests were in flight together; the second was
\* answered first with every coin at price 1, which the page received; the
\* first has now been answered with bitcoin alone at price 3, and the shared
\* entry is that payload with the time of its write.
C16_Witness ==
    /\ requested = 2
    /\ inflight = {}
    /\ reply.route = "prices"
    /\ reply.id = 1
    /\ reply.upstream = JsonArray(<<Market("bitcoin", Val(3))>>)
    /\ allPrices = FullSnapshot(1)
    /\ now > Epoch
    /\ priceCache = Entry(PartialSnapshot(3), now)

\* A fetch function of the page has just dealt with the response.
Receives == reply.route # "none" /\ ~reply.delivered /\ reply'.delivered

\* C23: fetchPrices and fetchOHLC never throw.  On a response lost on the
\* network, a non-OK status or an error body they return null, make no save
\* call and leave the store as it was; on any other response they return the
\* data of its body.
C23_FetchersNeverThrow ==
    [][ Receives =>
          LET failed == \/ reply'.lost
                        \/ reply.status < 200 \/ reply.status > 299
                        \/ reply.body.json = "error"
          IN  /\ ~reply'.fetched.threw
              /\ failed =>
                    /\ reply'.fetched.value = Null
                    /\ call' = NoCall
                    /\ localStorage' = localStorage
              /\ ~failed => reply'.fetched.value = Val(BodyData(reply.body)) ]_vars

\* C23 witness: fetchPrices returned a snapshot, which is displayed and
\* stored; fetchOHLC has then received a 429 error response, returned null
\* and left the store with the price entry alone.
C23_Witness ==
    /\ reply.route = "ohlc"
    /\ reply.delivered
    /\ ~reply.lost
    /\ reply.status = 429
    /\ reply.fetched = [threw |-> FALSE, value |-> Null]
    /\ call = NoCall
    /\ DOMAIN localStorage = {PRICE_CACHE_KEY}
    /\ allPrices = FullSnapshot(1)
    /\ chartData = <<>>

\* The request this step's response answers.
Answered == inflight \ inflight'

\* C34: the candle gateway's fallback uses the shared entry that exists when
\* the failure is handled.  When a candle request that found no entry for its
\* key meets an upstream failure or rate limit, and another request has
\* written an entry for the key in the meantime, the response carries that
\* entry's data tagged isStale = true with status 200.
C34_FallbackUsesCurrentEntry ==
    [][ /\ Responds
        /\ reply'.route = "ohlc"
        /\ reply'.upstream = RateLimited \/ UpstreamFailed
        /\ \E r \in Answered : r.cached.isNull
        /\ ~MapGet(ohlcCacheMap, reply'.key).isNull
        => /\ reply'.status = 200
           /\ reply'.body = OHLCBody(MapGet(ohlcCacheMap, reply'.key).data,
                                     TRUE) ]_vars

----------------------------------------------------------------------------
(* The timers of the page (page.tsx lines 166-213): the auto-refresh effect *)
(* and the visibility listener.  A timer is a record of its id, its kind,  *)
(* its period and the selection its callback closed over.  What a load     *)
(* does to the data state is in Spec (AutoRefresh, VisibilityRegain, the    *)
(* switches); no load changes a variable the effect depends on.             *)

TimerIds == 1..4
Interval(id, kind, coinId, days, delay) ==
    [id |-> id, kind |-> kind, coinId |-> coinId, days |-> days,
     delay |-> delay]

\* clearInterval(id): a no-op for an id that names no running timer.
clearInterval(running, id) ==
    IF id.isNull THEN running ELSE {t \in running : t.id # id.v}

\* setInterval returns an id no running timer has.
FreshTimerId(running, taken) ==
    CHOOSE id \in TimerIds :
        /\ id \notin ({t.id : t \in running} \cup taken)
        /\ \A other \in TimerIds :
              other \notin ({t.id : t \in running} \cup taken) => id <= other

\* One pass of the auto-refresh effect for a new value of its dependencies
\* (lines 180-213): the cleanup the previous pass returned, then the body.
AutoRefreshEffect(visible, coinId, days, running, ref, pending, countdown) ==
    LET cleaned == clearInterval(clearInterval(running, pending), ref)
        cleared == clearInterval(cleaned, ref)
        held == IF ref.isNull THEN {} ELSE {ref.v}
        tick == FreshTimerId(cleared, held)
        refresh == FreshTimerId(cleared, held \cup {tick})
    IN  IF visible
        THEN [intervals |-> cleared \cup
                            {Interval(tick, "countdown", coinId, days, 1000),
                             Interval(refresh, "refresh", coinId, days,
                                      AUTO_REFRESH_MS)},
              refreshIntervalRef |-> Val(refresh),
              countdownInterval |-> Val(tick),
              refreshCountdown |-> AUTO_REFRESH_MS \div 1000]
        ELSE [intervals |-> cleared,
              refreshIntervalRef |-> ref,
              countdownInterval |-> Null,
              refreshCountdown |-> countdown]

\* React runs the effect again after a render in which a dependency changed.
RerunAutoRefreshEffect(visible, coinId, days) ==
    LET e == AutoRefreshEffect(visible, coinId, days, intervals,
                               refreshIntervalRef, countdownInterval,
                               refreshCountdown)
    IN  /\ intervals' = e.intervals
        /\ refreshIntervalRef' = e.refreshIntervalRef
        /\ countdownInterval' = e.countdownInterval
        /\ refreshCountdown' = e.refreshCountdown

\* The first render's effects (lines 139-213): the auto-refresh effect runs
\* with the initial state, the restored coin is set, and the render that
\* follows runs the effect again if the coin changed.  isVisible is what
\* useState(true) made it (line 87), whatever the document's visibility.
TimersMount ==
    /\ ~isInitialized
    /\ storageAccess
    /\ LET saved == getItem(localStorage, STORAGE_KEY).value
           initialCoin == IF saved.json = "string" /\ saved.value \in CoinIds
                          THEN saved.value ELSE COINS[1]
           first == AutoRefreshEffect(isVisible, selectedCoin, timeRange,
                                      intervals, refreshIntervalRef,
                                      countdownInterval, refreshCountdown)
           e == IF initialCoin = selectedCoin THEN first
                ELSE AutoRefreshEffect(isVisible, initialCoin, timeRange,
                                       first.intervals,
                                       first.refreshIntervalRef,
                                       first.countdownInterval,
                                       first.refreshCountdown)
       IN  /\ selectedCoin' = initialCoin
           /\ selectedCoinRef' = initialCoin
           /\ isInitialized' = TRUE
           /\ intervals' = e.intervals
           /\ refreshIntervalRef' = e.refreshIntervalRef
           /\ countdownInterval' = e.countdownInterval
           /\ refreshCountdown' = e.refreshCountdown
    /\ UNCHANGED serverVars
    /\ UNCHANGED alertVars
    /\ UNCHANGED <<now, storageAccess, localStorage, call, timeRange,
                   timeRangeRef, allPrices, chartData, lastUpdated, isLoading,
                   isStale, error, started, ops, documentVisible, isVisible>>

\* The document changes visibility and handleVisibilityChange (lines 167-173)
\* sets isVisible; the effect runs again if that changed it.
VisibilityChange ==
    /\ isInitialized
    /\ documentVisible' = ~documentVisible
    /\ isVisible' = documentVisible'
    /\ IF isVisible' # isVisible
       THEN RerunAutoRefreshEffect(isVisible', selectedCoin, timeRange)
       ELSE UNCHANGED <<intervals, refreshIntervalRef, countdownInterval,
                        refreshCountdown>>
    /\ UNCHANGED serverVars
    /\ UNCHANGED alertVars
    /\ UNCHANGED <<now, storageAccess, localStorage, call, selectedCoin,
                   timeRange, selectedCoinRef, timeRangeRef, allPrices,
                   chartData, lastUpdated, isLoading, isStale, error,
                   isInitialized, started, ops>>

\* handleCoinChange (lines 389-397) as the timers see it: the selection
\* changes, the coin is saved, the effect runs again.
TimersCoinChange ==
    /\ isInitialized
    /\ documentVisible
    /\ \E coinId \in CoinIds \ {selectedCoin}, quotaOk \in BOOLEAN :
          /\ selectedCoin' = coinId
          /\ selectedCoinRef' = coinId
          /\ localStorage' = setItem(localStorage, STORAGE_KEY,
                                     PlainText(coinId), quotaOk).storage
          /\ RerunAutoRefreshEffect(isVisible, coinId, timeRange)
    /\ UNCHANGED serverVars
    /\ UNCHANGED alertVars
    /\ UNCHANGED <<now, storageAccess, call, timeRange, timeRangeRef,
                   allPrices, chartData, lastUpdated, isLoading, isStale,
                   error, isInitialized, started, ops, documentVisible,
                   isVisible>>

\* handleTimeRangeChange (lines 425-427) as the timers see it.
TimersTimeRangeChange ==
    /\ isInitialized
    /\ documentVisible
    /\ \E days \in Ranges \ {timeRange} :
          /\ timeRange' = days
          /\ timeRangeRef' = days
          /\ RerunAutoRefreshEffect(isVisible, selectedCoin, days)
    /\ UNCHANGED serverVars
    /\ UNCHANGED alertVars
    /\ UNCHANGED <<now, storageAccess, localStorage, call, selectedCoin,
                   selectedCoinRef, allPrices, chartData, lastUpdated,
                   isLoading, isStale, error, isInitialized, started, ops,
                   documentVisible, isVisible>>

\* A countdown timer fires (lines 190-192).
CountdownFires ==
    /\ \E t \in intervals : t.kind = "countdown"
    /\ refreshCountdown' = IF refreshCountdown > 0 THEN refreshCountdown - 1
                           ELSE AUTO_REFRESH_MS \div 1000
    /\ UNCHANGED serverVars
    /\ UNCHANGED alertVars
    /\ UNCHANGED <<now, storageAccess, localStorage, call, selectedCoin,
                   timeRange, selectedCoinRef, timeRangeRef, allPrices,
                   chartData, lastUpdated, isLoading, isStale, error,
                   isInitialized, started, ops, documentVisible, isVisible,
                   intervals, refreshIntervalRef, countdownInterval>>

\* A refresh timer fires (lines 195-198): it loads the selection it closed
\* over and resets the countdown.
RefreshFires ==
    /\ \E t \in intervals : t.kind = "refresh"
    /\ refreshCountdown' = AUTO_REFRESH_MS \div 1000
    /\ UNCHANGED serverVars
    /\ UNCHANGED alertVars
    /\ UNCHANGED <<now, storageAccess, localStorage, call, selectedCoin,
                   timeRange, selectedCoinRef, timeRangeRef, allPrices,
                   chartData, lastUpdated, isLoading, isStale, error,
                   isInitialized, started, ops, documentVisible, isVisible,
                   intervals, refreshIntervalRef, countdownInterval>>

\* The page is loaded again (lines 77-96): the component starts over with
\* its initial state and the old page's timers are gone; localStorage and
\* the document's visibility stay.
TimersReload ==
    /\ isInitialized
    /\ selectedCoin' = COINS[1]
    /\ selectedCoinRef' = COINS[1]
    /\ timeRange' = 1
    /\ timeRangeRef' = 1
    /\ isInitialized' = FALSE
    /\ isVisible' = TRUE
    /\ intervals' = {}
    /\ refreshIntervalRef' = Null
    /\ countdownInterval' = Null
    /\ refreshCountdown' = AUTO_REFRESH_MS \div 1000
    /\ UNCHANGED serverVars
    /\ UNCHANGED alertVars
    /\ UNCHANGED <<now, storageAccess, localStorage, call, allPrices,
                   chartData, lastUpdated, isLoading, isStale, error,
                   started, ops, documentVisible>>

\* A storage whose saved coin is one the page does not support.
OtherCoinStorage ==
    StorageWith(EmptyStorage, STORAGE_KEY, PlainText("dogecoin"))

\* The page is opened in the foreground or in a background tab.
TimersInit ==
    /\ now = Epoch
    /\ storageAccess = TRUE
    /\ localStorage \in {EmptyStorage, UsedStorage, OtherCoinStorage}
    /\ call = NoCall
    /\ UIInit
    /\ ServerInit
    /\ documentVisible \in BOOLEAN
    /\ isVisible = TRUE
    /\ intervals = {}
    /\ refreshIntervalRef = Null
    /\ countdownInterval = Null
    /\ refreshCountdown = AUTO_REFRESH_MS \div 1000
    /\ AlertInit

TimersNext ==
    \/ TimersMount
    \/ VisibilityChange
    \/ TimersCoinChange
    \/ TimersTimeRangeChange
    \/ CountdownFires
    \/ RefreshFires
    \/ TimersReload

SpecTimers == TimersInit /\ [][TimersNext]_vars

----------------------------------------------------------------------------
(* Claims about the timers, checked under SpecTimers *)

RunningTimers(kind) == {t \in intervals : t.kind = kind}

\* C24: at any time there is at most one auto-refresh timer and at most one
\* countdown timer; while the page is hidden neither is active; and the
\* active auto-refresh timer loads the currently selected coin and range.
C24_TimersFollowVisibility ==
    /\ Cardinality(RunningTimers("refresh")) <= 1
    /\ Cardinality(RunningTimers("countdown")) <= 1
    /\ ~documentVisible => intervals = {}
    /\ \A t \in RunningTimers("refresh") :
          t.coinId = selectedCoin /\ t.days = timeRange

\* C32: while the page is visible and the selection does not change,
\* auto-refresh loads the current coin and range every 30 seconds: a mounted
\* page in the foreground has a refresh timer, and every refresh timer it has
\* closed over the current selection and fires every 30 seconds.
C32_RefreshEveryThirtySeconds ==
    isInitialized /\ documentVisible =>
        /\ RunningTimers("refresh") # {}
        /\ \A t \in RunningTimers("refresh") :
              /\ t.coinId = selectedCoin
              /\ t.days = timeRange
              /\ t.delay = 30 * 1000

\* The saved coin the restore-selection effect would read.
SavedCoin(storage) == getItem(storage, STORAGE_KEY).value

\* C33: remember selection.  After a coin switch to a coin the stored
\* last-coin preference is that coin; and a mount selects the stored coin,
\* or the first supported coin when the preference is absent or is no
\* supported coin's id.  So the next mount selects the coin switched to.
C33_RememberSelection ==
    [][ /\ isInitialized /\ selectedCoin' # selectedCoin =>
              SavedCoin(localStorage') = PlainText(selectedCoin')
        /\ ~isInitialized /\ isInitialized' =>
              selectedCoin' =
                 IF \E c \in CoinIds : SavedCoin(localStorage) = PlainText(c)
                 THEN SavedCoin(localStorage).value ELSE COINS[1] ]_vars

----------------------------------------------------------------------------
(* Price alerts: the rule store (lib/alerts) *)

MaxAlerts == 2
AlertCoins == {"bitcoin", "ethereum"}
AlertConditions == {"above", "below"}
AlertTargets == {1, 2}

\* The snapshots the rules are evaluated against: every coin at 1, bitcoin
\* alone at 3, and every coin at the 0 the gateway puts for a missing figure.
AlertSnapshots == {FullSnapshot(1), PartialSnapshot(3), FullSnapshot(0)}

\* PriceAlert without the display names.  A rule without the optional field
\* triggered reads as not triggered.
PriceAlert(id, coinId, targetPrice, condition, createdAt) ==
    [id |-> id, coinId |-> coinId, targetPrice |-> targetPrice,
     condition |-> condition, createdAt |-> createdAt, triggered |-> FALSE]

\* JSON.stringify(alerts)
AlertsText(list) == [json |-> "alerts", alerts |-> list]

\* getAlerts (lines 17-27): the stored list, or [] when the key holds
\* nothing, the read throws or the text does not parse.
getAlerts(storage) ==
    LET stored == getItem(storage, ALERTS_STORAGE_KEY) IN
    IF stored.threw THEN <<>>
    ELSE IF stored.value.json = "alerts" THEN stored.value.alerts
    ELSE <<>>

\* saveAlerts (lines 30-38): a throwing setItem is swallowed.
saveAlerts(storage, list, quotaOk) ==
    setItem(storage, ALERTS_STORAGE_KEY, AlertsText(list), quotaOk).storage

\* A spread that would flip the flag instead of setting it.
TriggeredFlipping(a) == [a EXCEPT !.triggered = ~a.triggered]

\* { ...a, triggered: true }
Triggered(a) == [a EXCEPT !.triggered = TRUE]

\* An addAlert that would put the new rule first.
addAlertPrepending(storage, id, coinId, targetPrice, condition, t, quotaOk) ==
    LET newAlert == [id |-> id, coinId |-> coinId, targetPrice |-> targetPrice,
                     condition |-> condition, createdAt |-> t,
                     triggered |-> FALSE]
    IN  [storage |-> saveAlerts(storage, <<newAlert>> \o getAlerts(storage),
                                quotaOk),
         newAlert |-> newAlert]

\* addAlert (lines 41-53).  The random part of the id is never the same
\* twice: the id is the number of the rule in creation order.
addAlert(storage, id, coinId, targetPrice, condition, t, quotaOk) ==
    LET newAlert == PriceAlert(id, coinId, targetPrice, condition, t)
    IN  [storage |-> saveAlerts(storage, Append(getAlerts(storage), newAlert),
                                quotaOk),
         newAlert |-> newAlert]

\* removeAlert (lines 56-60)
removeAlert(storage, alertId, quotaOk) ==
    LET keep(a) == a.id # alertId
    IN  saveAlerts(storage, SelectSeq(getAlerts(storage), keep), quotaOk)

\* markAlertTriggered (lines 63-69)
markAlertTriggered(storage, alertId, quotaOk) ==
    LET mark(a) == IF a.id = alertId THEN Triggered(a) ELSE a
        list == getAlerts(storage)
    IN  saveAlerts(storage, [i \in DOMAIN list |-> mark(list[i])], quotaOk)

\* prices[alert.coinId]?.price (line 81): undefined for an absent coin
PriceOfCoin(prices, coinId) ==
    IF coinId \in DOMAIN prices THEN Val(prices[coinId].price) ELSE Null

\* !coinPrice (line 82): undefined and 0 are both falsy
NoCoinPrice(coinPrice) == coinPrice.isNull \/ coinPrice.v = 0

\* shouldTrigger (lines 84-86)
shouldTrigger(alert, coinPrice) ==
    \/ alert.condition = "above" /\ coinPrice >= alert.targetPrice
    \/ alert.condition = "below" /\ coinPrice <= alert.targetPrice

\* Whether the loop body reaches its firing branch for a rule (lines 79-88).
FiresOn(alert, prices) ==
    LET coinPrice == PriceOfCoin(prices, alert.coinId) IN
    /\ ~alert.triggered
    /\ ~NoCoinPrice(coinPrice)
    /\ shouldTrigger(alert, coinPrice.v)

\* A loop that would leave at the first rule that fires.
NextRuleBreaking(list, i, fired) == IF fired THEN Len(list) + 1 ELSE i + 1

\* The for-of loop (line 78) goes on with the next rule whether or not this
\* one fired.
NextRule(list, i, fired) == i + 1

\* checkAlerts (lines 72-95) from rule i of the list it read at its start;
\* saved is the set of rule ids whose save goes through.
RECURSIVE CheckAlertsFrom(_, _, _, _, _)
CheckAlertsFrom(list, i, storage, prices, saved) ==
    IF i > Len(list) THEN [storage |-> storage, triggered |-> <<>>]
    ELSE LET alert == list[i]
             fired == FiresOn(alert, prices)
             marked == IF fired
                       THEN markAlertTriggered(storage, alert.id,
                                               alert.id \in saved)
                       ELSE storage
             rest == CheckAlertsFrom(list, NextRule(list, i, fired), marked,
                                     prices, saved)
         IN  [storage |-> rest.storage,
              triggered |-> IF fired THEN <<alert>> \o rest.triggered
                            ELSE rest.triggered]

checkAlerts(storage, prices, saved) ==
    CheckAlertsFrom(getAlerts(storage), 1, storage, prices, saved)

\* clearTriggeredAlerts (lines 98-102)
clearTriggeredAlerts(storage, quotaOk) ==
    LET active(a) == ~a.triggered
    IN  saveAlerts(storage, SelectSeq(getAlerts(storage), active), quotaOk)

IdsOfAlerts(list) == {list[i].id : i \in DOMAIN list}

----------------------------------------------------------------------------
(* The rule store on its own: every export of lib/alerts that writes,       *)
(* called at any time with any argument; call records the call made.        *)

AlertCall(op, id, prices, saved, triggered) ==
    [op |-> op, id |-> id, prices |-> prices, saved |-> saved,
     triggered |-> triggered]

NoPrices == [c \in {} |-> CoinPrice(0)]

\* The ids a call's save went through for; a call that names no rule saves
\* under id 0.
SavedFor(id, quotaOk) == IF quotaOk THEN {id} ELSE {}

CallAddAlert ==
    /\ created < MaxAlerts
    /\ \E coinId \in AlertCoins, targetPrice \in AlertTargets,
          condition \in AlertConditions, quotaOk \in BOOLEAN :
          LET r == addAlert(localStorage, created + 1, coinId, targetPrice,
                            condition, now, quotaOk)
          IN  /\ localStorage' = r.storage
              /\ call' = AlertCall("addAlert", r.newAlert.id, NoPrices,
                                   SavedFor(r.newAlert.id, quotaOk), <<>>)
    /\ created' = created + 1
    /\ UNCHANGED <<now, storageAccess>>
    /\ UNCHANGED uiVars
    /\ UNCHANGED serverVars
    /\ UNCHANGED timerVars
    /\ UNCHANGED <<alerts, permission, notified>>

CallRemoveAlert ==
    /\ \E alertId \in 1..MaxAlerts, quotaOk \in BOOLEAN :
          /\ localStorage' = removeAlert(localStorage, alertId, quotaOk)
          /\ call' = AlertCall("removeAlert", alertId, NoPrices,
                               SavedFor(alertId, quotaOk), <<>>)
    /\ UNCHANGED <<now, storageAccess>>
    /\ UNCHANGED uiVars
    /\ UNCHANGED serverVars
    /\ UNCHANGED <<timerVars, alertVars>>

CallMarkAlertTriggered ==
    /\ \E alertId \in 1..MaxAlerts, quotaOk \in BOOLEAN :
          /\ localStorage' = markAlertTriggered(localStorage, alertId, quotaOk)
          /\ call' = AlertCall("markAlertTriggered", alertId, NoPrices,
                               SavedFor(alertId, quotaOk), <<>>)
    /\ UNCHANGED <<now, storageAccess>>
    /\ UNCHANGED uiVars
    /\ UNCHANGED serverVars
    /\ UNCHANGED <<timerVars, alertVars>>

CallCheckAlerts ==
    /\ \E prices \in AlertSnapshots, saved \in SUBSET (1..MaxAlerts) :
          LET r == checkAlerts(localStorage, prices, saved)
          IN  /\ localStorage' = r.storage
              /\ call' = AlertCall("checkAlerts", 0, prices, saved,
                                   r.triggered)
    /\ UNCHANGED <<now, storageAccess>>
    /\ UNCHANGED uiVars
    /\ UNCHANGED serverVars
    /\ UNCHANGED <<timerVars, alertVars>>

CallClearTriggeredAlerts ==
    /\ \E quotaOk \in BOOLEAN :
          /\ localStorage' = clearTriggeredAlerts(localStorage, quotaOk)
          /\ call' = AlertCall("clearTriggeredAlerts", 0, NoPrices,
                               SavedFor(0, quotaOk), <<>>)
    /\ UNCHANGED <<now, storageAccess>>
    /\ UNCHANGED uiVars
    /\ UNCHANGED serverVars
    /\ UNCHANGED <<timerVars, alertVars>>

\* No rule was ever created.
AlertsInit ==
    /\ now = Epoch
    /\ storageAccess = TRUE
    /\ localStorage = EmptyStorage
    /\ call = NoCall
    /\ UIInit
    /\ ServerInit
    /\ TimerInit
    /\ AlertInit

AlertsNext ==
    \/ CallAddAlert
    \/ CallRemoveAlert
    \/ CallMarkAlertTriggered
    \/ CallCheckAlerts
    \/ CallClearTriggeredAlerts

SpecAlerts == AlertsInit /\ [][AlertsNext]_vars

----------------------------------------------------------------------------
(* Claims about the rule store, checked under SpecAlerts *)

\* C29: the triggered flag is one-way.  In every step of the rule store, a
\* rule stored as triggered is stored unchanged afterwards, unless the step
\* is removeAlert of its id or clearTriggeredAlerts.
C29_TriggeredOneWay ==
    [][ LET before == getAlerts(localStorage)
            after == getAlerts(localStorage')
        IN  \A i \in DOMAIN before :
               before[i].triggered =>
                  \/ \E j \in DOMAIN after : after[j] = before[i]
                  \/ call'.op = "removeAlert" /\ call'.id = before[i].id
                  \/ call'.op = "clearTriggeredAlerts" ]_vars

\* checkAlerts has just fired one rule next to a rule that was triggered
\* before the call and is stored as triggered still.
C29_Witness ==
    /\ call.op = "checkAlerts"
    /\ Len(call.triggered) = 1
    /\ \E i \in DOMAIN getAlerts(localStorage) :
          /\ getAlerts(localStorage)[i].triggered
          /\ getAlerts(localStorage)[i].id \notin IdsOfAlerts(call.triggered)

\* Every order of a rule list.
Orderings(list) ==
    {[i \in DOMAIN list |-> list[p[i]]] :
        p \in {q \in [DOMAIN list -> DOMAIN list] :
                  \A i, j \in DOMAIN list : q[i] = q[j] => i = j}}

\* The stored flag of a rule id, FALSE for an id not stored.
StoredTriggered(storage, id) ==
    \E i \in DOMAIN getAlerts(storage) :
        getAlerts(storage)[i].id = id /\ getAlerts(storage)[i].triggered

\* C30: evaluation order across rules is irrelevant.  Whenever checkAlerts
\* has run, running it on the same rules in any other order, with the same
\* snapshot and the same saves going through, fires the same set of rules and
\* leaves every rule with the same stored flag; and a rule is among the fired
\* ones exactly if checkAlerts fires it when it is the only rule stored.
C30_OrderIrrelevant ==
    [][ call'.op = "checkAlerts" =>
          LET list == getAlerts(localStorage)
              fired == IdsOfAlerts(call'.triggered)
              with(l) == StorageWith(localStorage, ALERTS_STORAGE_KEY,
                                     AlertsText(l))
          IN  /\ \A l \in Orderings(list) :
                    LET r == checkAlerts(with(l), call'.prices, call'.saved)
                    IN  /\ IdsOfAlerts(r.triggered) = fired
                        /\ \A id \in IdsOfAlerts(list) :
                              StoredTriggered(r.storage, id)
                                 = StoredTriggered(localStorage', id)
              /\ \A i \in DOMAIN list :
                    LET alone == checkAlerts(with(<<list[i]>>), call'.prices,
                                             call'.saved)
                    IN  (list[i].id \in fired) = (alone.triggered # <<>>) ]_vars

\* checkAlerts has just fired both of two stored rules, and the save of one
\* of them failed.
C30_Witness ==
    /\ call.op = "checkAlerts"
    /\ Len(getAlerts(localStorage)) = 2
    /\ Len(call.triggered) = 2
    /\ Cardinality(call.saved) = 1

\* The stored list after a step is the one before it with one new rule, not
\* triggered, at its end.
AppendsOne(before, after, id) ==
    /\ Len(after) = Len(before) + 1
    /\ SubSeq(after, 1, Len(before)) = before
    /\ after[Len(after)].id = id
    /\ id \notin IdsOfAlerts(before)
    /\ ~after[Len(after)].triggered

\* The stored list after a step of one of the three mutations is what the
\* mutation is to make of the list before it.
MutatesTarget(before, after, made) ==
    LET keep(a) == a.id # made.id
        active(a) == ~a.triggered
    IN  CASE made.op = "addAlert" -> AppendsOne(before, after, made.id)
          [] made.op = "removeAlert" -> after = SelectSeq(before, keep)
          [] made.op = "clearTriggeredAlerts" ->
                after = SelectSeq(before, active)
          [] OTHER -> TRUE

\* C31 as stated: addAlert appends one new non-triggered rule at the end of
\* the stored list, removeAlert(id) deletes exactly the rules with that id,
\* clearTriggeredAlerts deletes exactly the triggered rules; every other rule
\* is unchanged and the order of the remaining rules is kept.
C31_MutationsTouchTarget ==
    [][ MutatesTarget(getAlerts(localStorage), getAlerts(localStorage'),
                      call') ]_vars

\* C31: the same for every mutation whose save goes through; a mutation
\* whose save fails leaves the stored list as it was.
C31_SavedMutationsTouchTarget ==
    [][ call'.op \in {"addAlert", "removeAlert", "clearTriggeredAlerts"} =>
          IF call'.saved # {}
          THEN MutatesTarget(getAlerts(localStorage),
                             getAlerts(localStorage'), call')
          ELSE getAlerts(localStorage') = getAlerts(localStorage) ]_vars

\* clearTriggeredAlerts has just removed a rule and kept another, and before
\* it a rule was added behind a stored one.
C31_Witness ==
    /\ call.op = "clearTriggeredAlerts"
    /\ call.saved # {}
    /\ created = 2
    /\ Len(getAlerts(localStorage)) = 1
    /\ getAlerts(localStorage)[1].id = 2

----------------------------------------------------------------------------
(* Price alerts: the AlertManager component (components/AlertManager) and   *)
(* the notification hook (hooks/useNotifications).  The page passes it its  *)
(* allPrices as currentPrices (page.tsx lines 518-522).                     *)

MaxNotified == 3

\* sendNotification (useNotifications lines 33-53): it shows a notification
\* only with the permission granted.  notified records every call.
Sent(alertId, granted) == [id |-> alertId, shown |-> granted]

\* The loop body of the price effect (AlertManager lines 45-53) reaches its
\* firing branch for a rule.
EffectFires(alert, currentPrices) ==
    LET coinPrice == PriceOfCoin(currentPrices, alert.coinId) IN
    /\ ~alert.triggered
    /\ ~(coinPrice.isNull \/ coinPrice.v = 0)
    /\ \/ alert.condition = "above" /\ coinPrice.v >= alert.targetPrice
       \/ alert.condition = "below" /\ coinPrice.v <= alert.targetPrice

\* The price effect (lines 42-69) for one value of its dependencies: nothing
\* for an empty snapshot; else one sendNotification and one setAlerts update
\* per firing rule.  The render that follows runs the effect again, which
\* then finds every fired rule triggered and does nothing.
PriceEffect(list, currentPrices, granted) ==
    LET fires(a) == EffectFires(a, currentPrices)
        mark(a) == IF fires(a) THEN Triggered(a) ELSE a
        fired == SelectSeq(list, fires)
    IN  IF DOMAIN currentPrices = {}
        THEN [alerts |-> list, sent |-> <<>>]
        ELSE [alerts |-> [i \in DOMAIN list |-> mark(list[i])],
              sent |-> [i \in DOMAIN fired |-> Sent(fired[i].id, granted)]]

\* A render with new alerts or new currentPrices, and the effect after it.
Render(list, currentPrices) ==
    LET e == PriceEffect(list, currentPrices, permission)
    IN  /\ alerts' = e.alerts
        /\ notified' = notified \o e.sent
        /\ Len(notified') <= MaxNotified

\* The component is mounted again, or the page is loaded again and starts
\* with no prices: the mount effect reads the stored rules (lines 32-34).
AlertManagerMount ==
    /\ \E reload \in BOOLEAN :
          /\ allPrices' = IF reload THEN NoPrices ELSE allPrices
          /\ Render(getAlerts(localStorage), allPrices')
    /\ call' = AlertCall("mount", 0, NoPrices, {}, <<>>)
    /\ UNCHANGED <<now, storageAccess, localStorage, permission, created>>
    /\ UNCHANGED <<selectedCoin, timeRange, selectedCoinRef, timeRangeRef,
                   chartData, lastUpdated, isLoading, isStale, error,
                   isInitialized, started, ops>>
    /\ UNCHANGED serverVars
    /\ UNCHANGED timerVars

\* The page commits a price snapshot (setAllPrices, page.tsx lines 275, 298,
\* 317, 458), the same as before or another one.
PricesCommit ==
    /\ \E prices \in AlertSnapshots :
          /\ allPrices' = prices
          /\ Render(alerts, prices)
    /\ call' = AlertCall("prices", 0, NoPrices, {}, <<>>)
    /\ UNCHANGED <<now, storageAccess, localStorage, permission, created>>
    /\ UNCHANGED <<selectedCoin, timeRange, selectedCoinRef, timeRangeRef,
                   chartData, lastUpdated, isLoading, isStale, error,
                   isInitialized, started, ops>>
    /\ UNCHANGED serverVars
    /\ UNCHANGED timerVars

\* handleAddAlert (lines 71-89) with a price above 0.
HandleAddAlert ==
    /\ created < MaxAlerts
    /\ \E coinId \in AlertCoins, price \in AlertTargets,
          formCondition \in AlertConditions, quotaOk \in BOOLEAN :
          LET r == addAlert(localStorage, created + 1, coinId, price,
                            formCondition, now, quotaOk)
          IN  /\ localStorage' = r.storage
              /\ Render(Append(alerts, r.newAlert), allPrices)
    /\ created' = created + 1
    /\ call' = AlertCall("handleAddAlert", 0, NoPrices, {}, <<>>)
    /\ UNCHANGED <<now, storageAccess, permission>>
    /\ UNCHANGED uiVars
    /\ UNCHANGED serverVars
    /\ UNCHANGED timerVars

\* handleRemoveAlert (lines 91-94)
HandleRemoveAlert ==
    /\ \E alertId \in IdsOfAlerts(alerts), quotaOk \in BOOLEAN :
          LET keep(a) == a.id # alertId IN
          /\ localStorage' = removeAlert(localStorage, alertId, quotaOk)
          /\ Render(SelectSeq(alerts, keep), allPrices)
    /\ call' = AlertCall("handleRemoveAlert", 0, NoPrices, {}, <<>>)
    /\ UNCHANGED <<now, storageAccess, permission, created>>
    /\ UNCHANGED uiVars
    /\ UNCHANGED serverVars
    /\ UNCHANGED timerVars

\* handleClearTriggered (lines 96-99)
HandleClearTriggered ==
    /\ \E quotaOk \in BOOLEAN :
          LET active(a) == ~a.triggered IN
          /\ localStorage' = clearTriggeredAlerts(localStorage, quotaOk)
          /\ Render(SelectSeq(alerts, active), allPrices)
    /\ call' = AlertCall("handleClearTriggered", 0, NoPrices, {}, <<>>)
    /\ UNCHANGED <<now, storageAccess, permission, created>>
    /\ UNCHANGED uiVars
    /\ UNCHANGED serverVars
    /\ UNCHANGED timerVars

\* The component has mounted on a page with no prices yet and no stored
\* rule; the notification permission is granted or not.
AlertManagerInit ==
    /\ now = Epoch
    /\ storageAccess = TRUE
    /\ localStorage = EmptyStorage
    /\ call = NoCall
    /\ UIInit
    /\ ServerInit
    /\ TimerInit
    /\ alerts = <<>>
    /\ permission \in BOOLEAN
    /\ notified = <<>>
    /\ created = 0

AlertManagerNext ==
    \/ AlertManagerMount
    \/ PricesCommit
    \/ HandleAddAlert
    \/ HandleRemoveAlert
    \/ HandleClearTriggered

SpecAlertManager == AlertManagerInit /\ [][AlertManagerNext]_vars

----------------------------------------------------------------------------
(* Claims about the alert panel, checked under SpecAlertManager *)

\* The firing condition with every price from 0 up counted as a price: the
\* snapshot holds a price for the rule's coin that meets the rule's condition.
MeetsCondition(alert, prices) ==
    /\ alert.coinId \in DOMAIN prices
    /\ prices[alert.coinId].price >= 0
    /\ \/ alert.condition = "above"
          /\ prices[alert.coinId].price >= alert.targetPrice
       \/ alert.condition = "below"
          /\ prices[alert.coinId].price <= alert.targetPrice

\* The step's evaluation fired the rule of an id: it called sendNotification
\* for it.
FiredInStep(alertId) ==
    \E i \in (Len(notified) + 1)..Len(notified') : notified'[i].id = alertId

\* The ids sendNotification was called for so far.
FiredBefore == {notified[i].id : i \in DOMAIN notified}

\* C26: when a snapshot is committed, a non-triggered rule fires if and only
\* if the snapshot holds a price p >= 0 for its coin with p >= targetPrice
\* (above) or p <= targetPrice (below); a rule whose coin is absent from the
\* snapshot does not fire and is unchanged.
C26_FiringCondition ==
    [][ call'.op = "prices" =>
          \A i \in DOMAIN alerts :
             ~alerts[i].triggered =>
                /\ FiredInStep(alerts[i].id) = MeetsCondition(alerts[i], allPrices')
                /\ alerts[i].coinId \notin DOMAIN allPrices' =>
                      alerts'[i] = alerts[i] ]_vars

\* The notifications shown for a rule id after the step.
ShownFor(alertId) ==
    {i \in DOMAIN notified' : notified'[i].id = alertId /\ notified'[i].shown}

\* C27: alert evaluation is idempotent.  Committing the snapshot that was
\* evaluated last changes no rule and fires nothing; a rule that has fired
\* fires in no later evaluation, so at most one notification is shown for
\* each rule.
C27_IdempotentEvaluation ==
    [][ /\ call'.op = "prices" /\ allPrices' = allPrices =>
              alerts' = alerts /\ notified' = notified
        /\ \A id \in FiredBefore : ~FiredInStep(id)
        /\ \A id \in 1..MaxAlerts : Cardinality(ShownFor(id)) <= 1 ]_vars

\* C28: firing persists the triggered state.  Whenever an evaluation fires a
\* rule, the stored list holds that rule with triggered = true after the
\* step; and a mount, which reads the rules from storage again, fires no
\* rule that has fired before.
C28_FiringPersists ==
    [][ /\ \A id \in 1..MaxAlerts :
              FiredInStep(id) => StoredTriggered(localStorage', id)
        /\ call'.op = "mount" =>
              \A id \in FiredBefore : ~FiredInStep(id) ]_vars

\* C40: the AlertManager's displayed rule list and the persisted rule list
\* stay equal.  After every AlertManager operation (mount, add rule, remove
\* rule, clear triggered, firing on a price update) the in-memory list is the
\* stored list, with the same rules and the same triggered flags; and every
\* rule that "clear triggered" removes from the display is gone from storage.
C40_DisplayEqualsStorage ==
    [][ /\ alerts' = getAlerts(localStorage')
        /\ call'.op = "handleClearTriggered" =>
              \A id \in IdsOfAlerts(alerts) \ IdsOfAlerts(alerts') :
                  id \notin IdsOfAlerts(getAlerts(localStorage')) ]_vars

----------------------------------------------------------------------------
(* Claims across the page and the gateways *)

\* The operation this step started.
StartedOp == ops'[Len(ops')]

\* Shared entries of every age around the two gateway TTLs, and none.
SampleEntries ==
    {NoEntry} \cup
    {Entry(FullSnapshot(1), Epoch - age) :
        age \in {0, GATEWAY_FRESH_TTL - 1, GATEWAY_FRESH_TTL,
                 GATEWAY_STALE_TTL - 1, GATEWAY_STALE_TTL}}

\* C35: the forceRefresh flag follows the client tier.  When loadAllData
\* issues the fetch of a stream, it passes forceRefresh = true if the client
\* entry of the stream is STALE and forceRefresh = false if the entry is
\* EXPIRED or absent; and a gateway asked with forceRefresh = true goes
\* upstream whatever shared entry it holds, a fresh one included.
C35_ForceRefreshFollowsTier ==
    [][ LoadStep =>
          /\ IssuesPriceFetch => StartedOp.forcePrices = PriceTier.isStale
          /\ IssuesOHLCFetch => StartedOp.forceOHLC = OHLCTier.isStale
          /\ \A entry \in SampleEntries :
                CacheCheck(entry, TRUE, Epoch) = Miss ]_vars

\* A loadAllData is under way that asked for the prices with forceRefresh =
\* true, its price entry being STALE, and for the candles without.
C35_Witness ==
    \E i \in DOMAIN ops :
        /\ ops[i].kind = "loadAllData"
        /\ ops[i].price # "none" /\ ops[i].forcePrices
        /\ ops[i].ohlc # "none" /\ ~ops[i].forceOHLC


\* No fetch of any operation is in flight.
NoFetchInFlight == \A i \in DOMAIN ops : IsOver(ops[i])

\* C38: the loading indicator always clears.  The step that settles the last
\* fetch of an operation that may have set isLoading (a load cycle with
\* showLoading, a switch that awaits its fetch, a manual refresh) leaves
\* isLoading false, whatever the outcome of the fetch; and isLoading is false
\* in every state with no fetch in flight.
C38_LoadingAlwaysClears ==
    [][ /\ \A i \in DOMAIN ops :
              (SettlesLast(i) /\ ops[i].showLoading) => ~isLoading'
        /\ NoFetchInFlight' => ~isLoading' ]_vars

\* C38 witness: a coin switch without a cached series set isLoading and
\* awaited its fetch, the fetch has failed, and isLoading is false again while
\* an earlier operation still has a fetch in flight.
C38_Witness ==
    \E i \in DOMAIN ops :
        /\ ops[i].kind = "handleCoinChange"
        /\ ops[i].showLoading
        /\ ops[i].ohlc = "failed"
        /\ ~isLoading

\* What the Freshness Store says, after the step, of the entry the received
\* response was saved under.
ClientEntryAfter ==
    IF reply.route = "prices"
    THEN getPricesFromCache(localStorage', now').value
    ELSE LET target == CHOOSE p \in GatewayCoins \X Ranges :
                           GatewayKey(p[1], p[2]) = reply.key
         IN  getOHLCFromCache(localStorage', target[1], target[2], now').value

\* C36: a payload the gateway returned tagged isStale = true is never
\* classified FRESH by the client Freshness Store.  When the page receives
\* such a response and saves its payload, the entry it saved is not FRESH,
\* and its timestamp is not later than that of the shared entry the payload
\* was served from.
C36_StalePayloadNeverFresh ==
    [][ /\ Receives
        /\ reply.body.json \in {"prices", "ohlc"}
        /\ reply.body.isStale
        /\ call'.op # "none" /\ call'.stored
        => /\ ~ClientEntryAfter.isFresh
           /\ localStorage'[call'.key].timestamp <=
                 SharedEntry(reply.route, reply.key, priceCache,
                             ohlcCacheMap).timestamp ]_vars


\* The shared entry of a key exists.
HasSharedEntry(route, key, prices, map) ==
    ~SharedEntry(route, key, prices, map).isNull

\* No shared entry is removed and no shared timestamp decreases in the step.
SharedCacheKept ==
    /\ HasSharedEntry("prices", "prices", priceCache, ohlcCacheMap) =>
          /\ HasSharedEntry("prices", "prices", priceCache', ohlcCacheMap')
          /\ priceCache'.timestamp >= priceCache.timestamp
    /\ \A k \in DOMAIN ohlcCacheMap :
          /\ k \in DOMAIN ohlcCacheMap'
          /\ ohlcCacheMap'[k].timestamp >= ohlcCacheMap[k].timestamp

\* A response to a key whose shared entry exists carries data.
NoErrorAfterSuccess ==
    (Responds /\ HasSharedEntry(reply'.route, reply'.key, priceCache,
                                ohlcCacheMap))
        => reply'.body.json # "error"

\* C37: the server shared cache is eviction-free with non-decreasing
\* timestamps.  Once the shared price entry or the shared candle entry of a
\* key exists, no step removes it or lowers its timestamp, and no response
\* to that key is an error any more.
C37_SharedCacheEvictionFree ==
    [][SharedCacheKept /\ NoErrorAfterSuccess]_vars

=============================================================================
